---- MODULE Spec2Model ----
\* Model of the cybernetic-chatbot-client core: CyberneticClient (the
\* orchestrator), CyberneticCache (the document store) and
\* CyberneticLocalRAG (the lexical search engine), with the ApiClient
\* transport as the environment.
\*
\* Conventions
\*   - A JavaScript value that may be null/undefined is a sequence of length
\*     0 (absent) or 1 (present): Null is <<>>, Some(x) is <<x>>.
\*   - A text the code inspects character by character (an Error message) is
\*     a sequence of one-character strings; a text the code only passes on is
\*     a TLA+ string.
\*   - Every call of an async method occupies one slot of `calls`; an action is
\*     what the call runs between two suspension points (awaits).  A call
\*     suspended on an already settled promise sits at a micro-task position
\*     and runs before any further I/O completion or timer is delivered.
\*   - Spec and SpecConcurrent cover ask and askStream on a constructed
\*     client; SpecSettings adds direct calls of checkSystemStatus; SpecSync
\*     adds syncCache, checkConnection and the window's offline event (its
\*     online event is a call of syncCache); SpecCache drives store and clear
\*     of the cache on its own and SpecEngine index and reset of the engine.
\*     SpecLazy adds clearCache and the syncCache the constructor starts
\*     with cacheOnConnect; SpecClear overlaps clearCache with ask and
\*     askStream; SpecLive is Spec under weak fairness of the completions;
\*     SpecConstruct starts from the configurations createClient may be
\*     given; SpecSnippet drives the snippet extraction.  Observers (onError, onStatusChange, the
\*     stream callbacks) are taken not to throw.
EXTENDS Integers, Sequences, FiniteSets, TLC

\* ------------------------------------------------------------------ bounds
MaxCalls == 2
MaxOps == 2
MaxRetriesBound == 2
MaxTick == 2
MaxDocs == 2

\* ------------------------------------------------------- program constants
SETTINGS_CHECK_INTERVAL == 300000
DefaultRetentionHours == 168
DefaultRetryAfter == 60
DefaultCacheMaxAge == 86400000
DefaultInitialDelay == 1000
LocalStorageLimit == 50
HourMs == 60 * 60 * 1000

Null == <<>>
Some(x) == <<x>>
IsNull(o) == o = <<>>
Max(a, b) == IF a >= b THEN a ELSE b
Min(a, b) == IF a <= b THEN a ELSE b

\* ------------------------------------------------------------------- texts
TextHTTP == <<"H", "T", "T", "P", " ">>
TextColon == <<":", " ">>
Text401 == <<"4", "0", "1">>
TextUnauthorized == <<"U", "n", "a", "u", "t", "h", "o", "r", "i", "z", "e", "d">>
Text429 == <<"4", "2", "9">>
TextRateLimit == <<"R", "a", "t", "e", " ", "l", "i", "m", "i", "t">>
Text5 == <<"5">>
TextServer == <<"S", "e", "r", "v", "e", "r">>
TextRetryAfter == <<"r", "e", "t", "r", "y", " ", "a", "f", "t", "e", "r", " ">>
TextNetworkError == <<"N", "e", "t", "w", "o", "r", "k", " ", "e", "r", "r", "o", "r">>
TextTooManyRequests ==
    <<"T", "o", "o", " ", "M", "a", "n", "y", " ", "R", "e", "q", "u", "e", "s", "t", "s">>
TextInternalServerError ==
    <<"I", "n", "t", "e", "r", "n", "a", "l", " ", "S", "e", "r", "v", "e", "r", " ",
      "E", "r", "r", "o", "r">>
BodyInvalidKey ==
    <<"I", "n", "v", "a", "l", "i", "d", " ", "A", "P", "I", " ", "k", "e", "y">>
BodyRateLimited ==
    <<"R", "a", "t", "e", " ", "l", "i", "m", "i", "t", " ", "e", "x", "c", "e", "e", "d",
      "e", "d", ",", " ", "r", "e", "t", "r", "y", " ", "a", "f", "t", "e", "r", " ", "3", "0">>
BodySlowDown ==
    <<"T", "o", "o", " ", "m", "a", "n", "y", " ", "r", "e", "q", "u", "e", "s", "t", "s">>
TextStreamingNotSupported ==
    <<"S", "t", "r", "e", "a", "m", "i", "n", "g", " ", "n", "o", "t", " ", "s", "u", "p",
      "p", "o", "r", "t", "e", "d">>

DigitChars == <<"0", "1", "2", "3", "4", "5", "6", "7", "8", "9">>
UpperChars ==
    <<"A", "B", "C", "D", "E", "F", "G", "H", "I", "J", "K", "L", "M",
      "N", "O", "P", "Q", "R", "S", "T", "U", "V", "W", "X", "Y", "Z">>
LowerChars ==
    <<"a", "b", "c", "d", "e", "f", "g", "h", "i", "j", "k", "l", "m",
      "n", "o", "p", "q", "r", "s", "t", "u", "v", "w", "x", "y", "z">>

IsDigit(ch) == \E d \in 1..10 : DigitChars[d] = ch
DigitValue(ch) == (CHOOSE d \in 1..10 : DigitChars[d] = ch) - 1

\* String.prototype.toLowerCase, one character
ToLowerChar(ch) ==
    IF \E k \in 1..26 : UpperChars[k] = ch
    THEN LowerChars[CHOOSE k \in 1..26 : UpperChars[k] = ch]
    ELSE ch

ToLower(s) == [i \in 1..Len(s) |-> ToLowerChar(s[i])]

\* String.prototype.includes
Includes(s, sub) ==
    \E i \in 1..(Len(s) - Len(sub) + 1) : SubSeq(s, i, i + Len(sub) - 1) = sub

\* the decimal digits of a number, as the template literal `${n}` prints them
RECURSIVE NumberToText(_)
NumberToText(n) ==
    IF n < 10 THEN <<DigitChars[n + 1]>>
    ELSE NumberToText(n \div 10) \o <<DigitChars[(n % 10) + 1]>>

\* parseInt(digits, 10) of a run of decimal digits
RECURSIVE ParseInt(_)
ParseInt(digits) ==
    IF Len(digits) = 0 THEN 0
    ELSE 10 * ParseInt(SubSeq(digits, 1, Len(digits) - 1)) + DigitValue(digits[Len(digits)])

\* the longest run of digits of s that starts at position i (the group (\d+))
RECURSIVE DigitRun(_, _)
DigitRun(s, i) ==
    IF i <= Len(s) /\ IsDigit(s[i]) THEN <<s[i]>> \o DigitRun(s, i + 1) ELSE <<>>

\* error.message.match(/retry after (\d+)/i): the positions where the literal
\* matches, ignoring case, and is followed by at least one digit
RetryAfterMatches(s) ==
    {i \in 1..Len(s) :
        /\ i + Len(TextRetryAfter) <= Len(s)
        /\ SubSeq(ToLower(s), i, i + Len(TextRetryAfter) - 1) = TextRetryAfter
        /\ IsDigit(s[i + Len(TextRetryAfter)])}

\* the captured group of the leftmost match, if any
RetryAfterMatch(s) ==
    IF RetryAfterMatches(s) = {} THEN Null
    ELSE LET i == CHOOSE k \in RetryAfterMatches(s) :
                      \A j \in RetryAfterMatches(s) : k <= j
         IN Some(DigitRun(s, i + Len(TextRetryAfter)))

\* --------------------------------------------------------------- transport
\* What the backend (or the network) answers to one chat request: fetch is
\* rejected (status 0), a 2xx response carries a reply, or a non-2xx response
\* comes with a status text and a JSON body that may carry a `message`.
ChatResponses ==
    [ ok1 |-> [status |-> 200, statusText |-> <<>>, body |-> Null, reply |-> "Success!"],
      net |-> [status |-> 0, statusText |-> <<>>, body |-> Some(TextNetworkError),
               reply |-> ""],
      h401 |-> [status |-> 401, statusText |-> TextUnauthorized, body |-> Null,
                reply |-> ""],
      h401msg |-> [status |-> 401, statusText |-> TextUnauthorized,
                   body |-> Some(BodyInvalidKey), reply |-> ""],
      h429 |-> [status |-> 429, statusText |-> <<>>, body |-> Null, reply |-> ""],
      h429after |-> [status |-> 429, statusText |-> TextTooManyRequests,
                     body |-> Some(BodyRateLimited), reply |-> ""],
      h429msg |-> [status |-> 429, statusText |-> TextTooManyRequests,
                   body |-> Some(BodySlowDown), reply |-> ""],
      h500 |-> [status |-> 500, statusText |-> TextInternalServerError, body |-> Null,
                reply |-> ""] ]

ChatOutcomes == DOMAIN ChatResponses

IsOk(resp) == resp.status >= 200 /\ resp.status < 300

\* error.message || fallback  (an absent or empty message is falsy)
OrElse(opt, fallback) == IF opt = Null \/ opt[1] = <<>> THEN fallback ELSE opt[1]

\* ApiClient.chat: the Error thrown for a response that is not ok, or the
\* Error fetch itself rejected with
ChatError(resp) ==
    IF resp.status = 0
    THEN [isError |-> TRUE, message |-> resp.body[1]]
    ELSE [isError |-> TRUE,
          message |-> OrElse(resp.body,
                             TextHTTP \o NumberToText(resp.status) \o TextColon
                                      \o resp.statusText)]

\* ApiClient.chatStream: as chat, but the default message has no status text
ChatStreamError(resp) ==
    IF resp.status = 0
    THEN [isError |-> TRUE, message |-> resp.body[1]]
    ELSE [isError |-> TRUE,
          message |-> OrElse(resp.body, TextHTTP \o NumberToText(resp.status))]

\* CyberneticClient.normalizeError: the class is read off the message text
NormalizeError(error) ==
    IF ~error.isError
    THEN [code |-> "NETWORK_ERROR", retryAfter |-> Null]
    ELSE IF Includes(error.message, Text401) \/ Includes(error.message, TextUnauthorized)
    THEN [code |-> "AUTH_ERROR", retryAfter |-> Null]
    ELSE IF Includes(error.message, Text429) \/ Includes(error.message, TextRateLimit)
    THEN [code |-> "RATE_LIMIT",
          retryAfter |-> IF RetryAfterMatch(error.message) = Null
                         THEN Some(DefaultRetryAfter)
                         ELSE Some(ParseInt(RetryAfterMatch(error.message)[1]))]
    ELSE IF Includes(error.message, Text5) \/ Includes(error.message, TextServer)
    THEN [code |-> "SERVER_ERROR", retryAfter |-> Null]
    ELSE [code |-> "NETWORK_ERROR", retryAfter |-> Null]

\* ------------------------------------------------------------ system settings
\* The systemSettings object of a status response; every field may be missing.
ServerSettings ==
    { [cacheRetentionHours |-> Some(168), maintenanceMode |-> Some(FALSE),
       maintenanceMessage |-> Null, forceOfflineClients |-> Some(FALSE)],
      [cacheRetentionHours |-> Some(1), maintenanceMode |-> Some(TRUE),
       maintenanceMessage |-> Some("Back in 2 hours!"), forceOfflineClients |-> Some(FALSE)],
      [cacheRetentionHours |-> Some(0), maintenanceMode |-> Null,
       maintenanceMessage |-> Null, forceOfflineClients |-> Some(TRUE)] }

StatusOutcomes ==
    [kind : {"ok"}, systemSettings : {Null} \cup {Some(s) : s \in ServerSettings}]
    \cup [kind : {"fail"}, systemSettings : {Null}]

\* a ?? b
Coalesce(opt, default) == IF opt = Null THEN default ELSE opt[1]

\* checkSystemStatus: the settings extracted from a status response
ExtractSettings(resp) ==
    LET s == resp.systemSettings
    IN [cacheRetentionHours |->
            IF s = Null THEN DefaultRetentionHours
            ELSE Coalesce(s[1].cacheRetentionHours, DefaultRetentionHours),
        maintenanceMode |->
            IF s = Null THEN FALSE ELSE Coalesce(s[1].maintenanceMode, FALSE),
        maintenanceMessage |->
            IF s = Null THEN Null ELSE s[1].maintenanceMessage,
        forceOfflineClients |->
            IF s = Null THEN FALSE ELSE Coalesce(s[1].forceOfflineClients, FALSE)]

\* checkSystemStatus: the safe defaults returned when nothing is cached
SafeDefaults ==
    [cacheRetentionHours |-> DefaultRetentionHours, maintenanceMode |-> FALSE,
     maintenanceMessage |-> Null, forceOfflineClients |-> FALSE]

\* checkSystemStatus: may the cached settings be reused?
SettingsFresh(settings, lastChecked, t) ==
    settings # Null /\ t - lastChecked < SETTINGS_CHECK_INTERVAL

\* the gate of ask/askStream, reading maintenanceMode only (a mutation)
MaintenanceActiveModeOnly(s) == s.maintenanceMode

\* the gate of ask/askStream: settings.maintenanceMode || settings.forceOfflineClients
MaintenanceActive(s) == s.maintenanceMode \/ s.forceOfflineClients

\* ------------------------------------------------------------------ answers
ReplyMessageRequired == "Message is required"
ReplyMaintenance ==
    "The service is currently under maintenance. Please try again later."
ReplyRateLimited ==
    "I'm receiving too many requests right now. Please try again in a moment."
ReplyUnableToConnect ==
    "Unable to connect to the chatbot service. Please try again later."
ReplyNoCache ==
    "I'm currently offline and don't have any cached information. Please check your connection and try again."
ReplyTrouble ==
    "I'm having trouble processing your request offline. Please try again when you're back online."
ReplyNoInfo == "I don't have any information available offline."
ReplyNotFound ==
    "I couldn't find relevant information for your question in my offline data."

Answer(reply, confidence, sources, offline, retryAfter, degradedReason) ==
    [reply |-> reply, confidence |-> confidence, sources |-> sources,
     offline |-> offline, retryAfter |-> retryAfter, degradedReason |-> degradedReason]

\* CyberneticClient.createErrorResponse
CreateErrorResponse(message, confidence, retryAfter) ==
    Answer(message, confidence, <<>>, FALSE, retryAfter, Null)

\* ask: the Answer of a successful live call
LiveAnswer(response) ==
    Answer(response.reply, "high", <<>>, FALSE, Null, Null)

\* ask: the Answer of the maintenance branch when the cache is not valid
MaintenanceAnswer(settings) ==
    Answer(IF settings.maintenanceMessage = Null \/ settings.maintenanceMessage[1] = ""
           THEN ReplyMaintenance ELSE settings.maintenanceMessage[1],
           "none", <<>>, TRUE, Null,
           Some("Maintenance mode active, no valid cache available"))

\* ask: the Answer for a rate-limit failure
RateLimitAnswer(omegaError) ==
    Answer(ReplyRateLimited, "none", <<>>, FALSE, omegaError.retryAfter, Null)

\* ------------------------------------------------------------------ messages
\* The `message` argument of ask/askStream: any JavaScript value.
MessageInputs ==
    { [type |-> "string", text |-> ""],
      [type |-> "string", text |-> "What is the return policy?"],
      [type |-> "null", text |-> ""],
      [type |-> "number", text |-> "42"] }

\* !message : null, the empty string and 0 are falsy
Falsy(m) == m.type = "null" \/ (m.type = "string" /\ m.text = "")
               \/ (m.type = "number" /\ m.text = "0")

\* the input check of ask without the typeof test (a mutation)
IsInvalidMessageFalsyOnly(m) == Falsy(m)

\* ask/askStream: !message || typeof message !== 'string'
IsInvalidMessage(m) == Falsy(m) \/ m.type # "string"

\* ------------------------------------------------------------- retry policy
\* apiWithRetry: classes that are rethrown at once
NoRetry(code) == code \in {"AUTH_ERROR", "RATE_LIMIT"}

RECURSIVE Pow2(_)
Pow2(n) == IF n = 0 THEN 1 ELSE 2 * Pow2(n - 1)

\* apiWithRetry: the delay before the attempt that follows attempt number n
RetryDelay(initialDelay, exponentialBackoff, n) ==
    IF exponentialBackoff THEN initialDelay * Pow2(n) ELSE initialDelay

\* ask, falling back whatever the caller asked (a mutation)
UseFallbackIgnoreSkip(enabled, skipFallback) == enabled

\* ask/askStream: this.config.fallback.enabled && !options?.skipFallback
UseFallback(enabled, skipFallback) == enabled /\ ~skipFallback

\* -------------------------------------------------------------- documents
\* A reference document as the backend serves it.  `content` is absent in a
\* malformed document.
Doc(id, title, content) == [id |-> id, title |-> title, content |-> content]

DocPool ==
    << Doc("doc-1", "Return Policy", Some("Our return policy allows returns within 30 days.")),
       Doc("doc-2", "Shipping Information", Some("We offer free shipping on orders over $50.")),
       Doc("doc-3", "Broken", Null) >>

\* the document lists a docs request may deliver: the first n documents of
\* the pool, the second document alone, or the second with the malformed one
DocLists ==
    {SubSeq(DocPool, 1, n) : n \in 0..Min(MaxDocs, Len(DocPool))}
    \cup {SubSeq(DocPool, 2, 2), SubSeq(DocPool, 2, 3)}

\* Array.prototype.slice(0, n)
Slice(list, n) == SubSeq(list, 1, Min(n, Len(list)))

\* ------------------------------------------------------------ CyberneticCache
\* new Date().toISOString() and new Date(text).getTime(): the text keeps the
\* instant to the millisecond
ToISOString(t) == [iso |-> t]
DateGetTime(text) == text.iso

\* CyberneticCache.getStatus
CacheGetStatus(count, lastSync, maxAge, t) ==
    [documentCount |-> count,
     lastSyncAt |-> lastSync,
     cacheSize |-> count * 5000,
     isStale |-> t - (IF lastSync = Null THEN 0 ELSE DateGetTime(lastSync[1])) > maxAge]

\* isCacheValid accepting a cache that never synced (a mutation)
IsCacheValidNoSyncCheck(cacheStatus, settings, t) ==
    LET retentionHours ==
            IF settings = Null \/ settings[1].cacheRetentionHours = 0
            THEN DefaultRetentionHours ELSE settings[1].cacheRetentionHours
    IN t - (IF cacheStatus.lastSyncAt = Null THEN t
            ELSE DateGetTime(cacheStatus.lastSyncAt[1])) < retentionHours * HourMs

\* CyberneticClient.isCacheValid
IsCacheValid(cacheStatus, settings, t) ==
    IF cacheStatus.lastSyncAt = Null THEN FALSE
    ELSE LET retentionHours ==
                 IF settings = Null \/ settings[1].cacheRetentionHours = 0
                 THEN DefaultRetentionHours ELSE settings[1].cacheRetentionHours
         IN t - DateGetTime(cacheStatus.lastSyncAt[1]) < retentionHours * HourMs

\* CyberneticCache.retrieveLocalStorage
RetrieveLocalStorage(item) == IF item = Null THEN <<>> ELSE item[1]

\* Which localStorage.setItem calls of storeLocalStorage the browser rejects
\* with a quota error: none, the documents write, or the metadata write; and
\* then whether the retry with the truncated list is rejected too.
QuotaOutcomes == {"ok", "docs", "docsRetry", "meta", "metaRetry"}

\* CyberneticCache.storeLocalStorage
StoreLocalStorage(docs, quota, oldDocs, oldMeta, oldCount, oldSync, t) ==
    LET limited == Slice(docs, LocalStorageLimit)
    IN CASE quota = "ok" ->
              [lsDocs |-> Some(docs),
               lsMeta |-> Some([documentCount |-> Len(docs),
                                lastSyncAt |-> Some(ToISOString(t))]),
               documentCount |-> Len(docs), lastSyncAt |-> Some(ToISOString(t)),
               threw |-> FALSE]
         [] quota = "docs" ->
              [lsDocs |-> Some(limited), lsMeta |-> oldMeta,
               documentCount |-> Len(limited), lastSyncAt |-> oldSync,
               threw |-> FALSE]
         [] quota = "docsRetry" ->
              [lsDocs |-> Null, lsMeta |-> oldMeta,
               documentCount |-> oldCount, lastSyncAt |-> oldSync,
               threw |-> TRUE]
         [] quota = "meta" ->
              [lsDocs |-> Some(limited), lsMeta |-> oldMeta,
               documentCount |-> Len(limited), lastSyncAt |-> Some(ToISOString(t)),
               threw |-> FALSE]
         [] quota = "metaRetry" ->
              [lsDocs |-> Null, lsMeta |-> oldMeta,
               documentCount |-> Len(docs), lastSyncAt |-> Some(ToISOString(t)),
               threw |-> TRUE]

\* the documents object store after put(doc) for every doc of docs: a put
\* replaces the record with the same key and adds any other
PutAll(stored, docs) ==
    LET Last(id) ==
            docs[CHOOSE j \in 1..Len(docs) :
                    /\ docs[j].id = id
                    /\ \A k \in (j + 1)..Len(docs) : docs[k].id # id]
        Put(id) == \E j \in 1..Len(docs) : docs[j].id = id
        IsNew(j) ==
            /\ \A i \in 1..Len(stored) : stored[i].id # docs[j].id
            /\ \A k \in 1..(j - 1) : docs[k].id # docs[j].id
        added == SelectSeq([j \in 1..Len(docs) |-> j], IsNew)
    IN [i \in 1..Len(stored) |->
           IF Put(stored[i].id) THEN Last(stored[i].id) ELSE stored[i]]
       \o [n \in 1..Len(added) |-> Last(docs[added[n]].id)]

\* -------------------------------------------------------- CyberneticLocalRAG
\* isIndexed reading the flag alone (a mutation)
IsIndexedFlagOnly(isIndexedFlag, docs) == isIndexedFlag

\* isIndexed never reporting an index, so that every fallback indexes anew (a
\* mutation)
IsIndexedNever(isIndexedFlag, docs) == FALSE

\* CyberneticLocalRAG.isIndexed
IsIndexed(isIndexedFlag, docs) == isIndexedFlag /\ Len(docs) > 0

\* CyberneticLocalRAG.index: the engine after index(docs).  tokenize() throws
\* on the first document without content; the documents before it have been
\* pushed already, without weights, and `indexed` keeps its old value.
RagIndex(docs, oldIndexed) ==
    LET bad == {i \in 1..Len(docs) : docs[i].content = Null}
    IN IF bad = {}
       THEN [documents |-> [i \in 1..Len(docs) |->
                               [id |-> docs[i].id, title |-> docs[i].title,
                                content |-> docs[i].content, weighted |-> TRUE]],
             indexed |-> TRUE, threw |-> FALSE]
       ELSE LET first == CHOOSE i \in bad : \A j \in bad : i <= j
            IN [documents |-> [i \in 1..(first - 1) |->
                                  [id |-> docs[i].id, title |-> docs[i].title,
                                   content |-> docs[i].content, weighted |-> FALSE]],
                indexed |-> oldIndexed, threw |-> TRUE]

\* Cosine similarities are reals in [0, 1]; they are kept in thousandths.  The
\* similarity of a query to a weighted document is an input of the model,
\* drawn from levels on either side of every threshold the code compares it
\* with (0.1, 0.3 and 0.7).
ScoreLevels == {0, 200, 500, 800}

\* the scorings ask() may compute: a document without weights scores 0
Scorings(docs) ==
    {sc \in [1..Len(docs) -> ScoreLevels] :
        \A i \in 1..Len(docs) : ~docs[i].weighted => sc[i] = 0}

\* the positions of docs sorted by ascending score (a mutation)
RankedAscending(sc) ==
    LET n == Len(sc)
        before(i, j) == sc[i] < sc[j] \/ (sc[i] = sc[j] /\ i < j)
        rank(i) == 1 + Cardinality({j \in 1..n : before(j, i)})
    IN [r \in 1..n |-> CHOOSE i \in 1..n : rank(i) = r]

\* the positions of docs in the order of scores.sort((a, b) => b.score - a.score),
\* a stable sort
Ranked(sc) ==
    LET n == Len(sc)
        before(i, j) == sc[i] > sc[j] \/ (sc[i] = sc[j] /\ i < j)
        rank(i) == 1 + Cardinality({j \in 1..n : before(j, i)})
    IN [r \in 1..n |-> CHOOSE i \in 1..n : rank(i) = r]

\* ask testing the indexed flag alone before it ranks (a mutation)
RagAskFlagOnly(isIndexedFlag, docs, sc) ==
    IF ~isIndexedFlag
    THEN [answer |-> ReplyNoInfo, sources |-> <<>>, topScore |-> 0]
    ELSE LET order == Ranked(sc)
             kept == SelectSeq(Slice(order, 3), LAMBDA i : sc[i] > 100)
         IN IF kept = <<>>
            THEN [answer |-> ReplyNotFound, sources |-> <<>>,
                  topScore |-> IF order = <<>> THEN 0 ELSE sc[order[1]]]
            ELSE [answer |-> docs[kept[1]].content[1],
                  sources |-> [k \in 1..Len(kept) |->
                                  [title |-> docs[kept[k]].title,
                                   relevance |-> sc[kept[k]]]],
                  topScore |-> sc[kept[1]]]

\* CyberneticLocalRAG.ask; the snippet extractRelevantSnippet cuts from the
\* top document is kept as that document's content
RagAsk(isIndexedFlag, docs, sc) ==
    IF ~isIndexedFlag \/ Len(docs) = 0
    THEN [answer |-> ReplyNoInfo, sources |-> <<>>, topScore |-> 0]
    ELSE LET order == Ranked(sc)
             top3 == Slice(order, 3)
             kept == SelectSeq(top3, LAMBDA i : sc[i] > 100)
         IN IF kept = <<>>
            THEN [answer |-> ReplyNotFound, sources |-> <<>>, topScore |-> sc[order[1]]]
            ELSE [answer |-> docs[kept[1]].content[1],
                  sources |-> [k \in 1..Len(kept) |->
                                  [title |-> docs[kept[k]].title,
                                   relevance |-> sc[kept[k]]]],
                  topScore |-> sc[kept[1]]]

\* ---------------------------------------------- CyberneticLocalRAG: ranking
\* For ranking, a text is the sequence of words that replacing punctuation by
\* blanks and splitting at white space yields; weights are integers: idf in
\* tenths, a term's weight in a text its count times idf (the factor
\* 1/maxFreq of computeTermFrequency is common to a vector and leaves the
\* cosine unchanged), a similarity in thousandths, rounded down.
RankPool ==
    << Doc("r-1", "Fruit", Some(<<"apple", "banana", "cherry", "cherry", "cherry",
                                  "cherry", "cherry">>)),
       Doc("r-2", "Pie", Some(<<"Apple", "pear">>)),
       Doc("r-3", "Saying", Some(<<"It", "is", "what", "it", "is">>)),
       Doc("r-4", "Orchard", Some(<<"apple", "pear", "plum", "on", "offer">>)),
       Doc("r-5", "Salad", Some(<<"pear", "apple">>)) >>

\* String.prototype.toLowerCase on the words of the pool
ToLowerWord(w) ==
    CASE w = "Apple" -> "apple"
      [] w = "It" -> "it"
      [] OTHER -> w

\* isStopWord, for the words of the pool
StopWords == {"it", "is", "what", "on", "the", "and"}

\* tokenize
Tokenize(text) ==
    SelectSeq([i \in 1..Len(text) |-> ToLowerWord(text[i])],
              LAMBDA w : Len(w) > 2 /\ w \notin StopWords)

\* computeTermFrequency, before the division by maxFreq: term -> count
TermCount(tokens) ==
    [t \in {tokens[i] : i \in 1..Len(tokens)} |->
        Cardinality({i \in 1..Len(tokens) : tokens[i] = t})]

\* 10 * ln(a / b), rounded, for the ratios (N + 1) / (df + 1) of small corpora
Ln10(a, b) ==
    CASE a = b -> 0
      [] a = 3 /\ b = 2 -> 4
      [] a = 4 /\ b = 2 -> 7
      [] a = 4 /\ b = 3 -> 3
      [] a = 5 /\ b = 2 -> 9
      [] a = 5 /\ b = 3 -> 5
      [] a = 5 /\ b = 4 -> 2

\* index: idf(term) = ln((N + 1) / (df + 1)) + 1 over the indexed corpus; a
\* term no document holds has no entry
Idf(docs) ==
    LET toks(i) == Tokenize(docs[i].content[1])
        terms == UNION {{toks(i)[k] : k \in 1..Len(toks(i))} : i \in 1..Len(docs)}
        df(t) == Cardinality({i \in 1..Len(docs) :
                                \E k \in 1..Len(toks(i)) : toks(i)[k] = t})
    IN [t \in terms |-> Ln10(Len(docs) + 1, df(t) + 1) + 10]

\* the largest r with r * r <= x, for lo * lo <= x < hi * hi
RECURSIVE Isqrt(_, _, _)
Isqrt(x, lo, hi) ==
    IF hi - lo <= 1 THEN lo
    ELSE LET mid == (lo + hi) \div 2
         IN IF mid * mid <= x THEN Isqrt(x, mid, hi) ELSE Isqrt(x, lo, mid)

\* cosineSimilarity of two weight vectors (functions term -> weight)
CosineSimilarity(vec1, vec2) ==
    LET Sum(f) ==
            LET RECURSIVE S(_)
                S(D) == IF D = {} THEN 0
                        ELSE LET t == CHOOSE u \in D : TRUE
                             IN f[t] + S(D \ {t})
            IN S(DOMAIN f)
        dot == Sum([t \in DOMAIN vec1 |->
                      IF t \in DOMAIN vec2 THEN vec1[t] * vec2[t] ELSE 0])
        norm1 == Sum([t \in DOMAIN vec1 |-> vec1[t] * vec1[t]])
        norm2 == Sum([t \in DOMAIN vec2 |-> vec2[t] * vec2[t]])
    IN IF norm1 = 0 \/ norm2 = 0 THEN 0
       ELSE (1000 * dot) \div Isqrt(norm1 * norm2, 0, 46340)

\* ask: the similarity of the query to each indexed document; a query term
\* without idf entry weighs 1
RankScores(docs, query) ==
    LET idf == Idf(docs)
        qc == TermCount(Tokenize(query))
        qv == [t \in DOMAIN qc |->
                 qc[t] * (IF t \in DOMAIN idf THEN idf[t] ELSE 10)]
        dv(i) == LET dc == TermCount(Tokenize(docs[i].content[1]))
                 IN [t \in DOMAIN dc |-> dc[t] * idf[t]]
    IN [i \in 1..Len(docs) |-> CosineSimilarity(qv, dv(i))]

\* extractRelevantSnippet(content, queryTokens): content is the sequence of
\* its non-blank sentences (the pieces between runs of . ! ?), each a sequence
\* of words.  The result is the sentences joined into the snippet, in order,
\* or `whole` when no sentence scores and the head of the content is returned
ExtractRelevantSnippet(content, queryTokens) ==
    LET has(i, qt) ==
            LET st == Tokenize(content[i])
            IN \E j \in 1..Len(st) : st[j] = qt
        sc == [i \in 1..Len(content) |->
                 Cardinality({k \in 1..Len(queryTokens) : has(i, queryTokens[k])})]
        topSentences == SelectSeq(Slice(Ranked(sc), 3), LAMBDA i : sc[i] > 0)
    IN [sentences |-> [k \in 1..Len(topSentences) |-> content[topSentences[k]]],
        whole |-> topSentences = <<>>]

\* fallbackAsk reporting a strong match as high (a mutation)
FallbackConfidenceUncapped(topScore) ==
    IF topScore < 300 THEN "low" ELSE IF topScore > 700 THEN "high" ELSE "medium"

\* fallbackAsk: the confidence of a local answer
FallbackConfidence(topScore) ==
    IF topScore < 300 THEN "low" ELSE IF topScore > 700 THEN "medium" ELSE "medium"

\* fallbackAsk: the Answer built from the engine's result
FallbackAnswer(result, cacheStatus) ==
    Answer(result.answer, FallbackConfidence(result.topScore), result.sources, TRUE, Null,
           Some(IF cacheStatus.isStale THEN "Using stale cached data"
                ELSE "Processed locally without server"))

\* fallbackAsk: the Answer when the cache holds no document
NoCacheAnswer ==
    Answer(ReplyNoCache, "none", <<>>, TRUE, Null, Some("No cached documents available"))

\* fallbackAsk: the Answer when retrieval, indexing or search throws
TroubleAnswer ==
    Answer(ReplyTrouble, "none", <<>>, TRUE, Null, Some("Local RAG processing failed"))

\* cached tables over the chat outcomes
ChatErrorOf == [o \in ChatOutcomes |-> ChatError(ChatResponses[o])]
ChatStreamErrorOf == [o \in ChatOutcomes |-> ChatStreamError(ChatResponses[o])]

\* an exception in flight: where it was thrown and on which outcome
Thrown(via, id) == [via |-> via, id |-> id]

\* the Error object of an exception in flight
ErrorOf(thrown) ==
    CASE thrown.via = "chat" -> ChatErrorOf[thrown.id]
      [] thrown.via = "stream" -> ChatStreamErrorOf[thrown.id]
      [] thrown.via = "reader" ->
            [isError |-> TRUE, message |-> TextStreamingNotSupported]
      [] thrown.via = "read" ->
            [isError |-> TRUE, message |-> TextNetworkError]
      [] OTHER -> [isError |-> FALSE, message |-> <<>>]

ThrownKinds ==
    {Thrown("chat", o) : o \in ChatOutcomes} \cup
    {Thrown("stream", o) : o \in ChatOutcomes} \cup
    {Thrown("reader", "ok1"), Thrown("read", "ok1"), Thrown("undefined", "ok1")}

\* normalizeError applied to each exception that can be in flight
Normalized == [e \in ThrownKinds |-> NormalizeError(ErrorOf(e))]

\* ------------------------------------------------------------------- state
VARIABLES
    config,              \* CyberneticClient.config, fixed by the constructor
    status,              \* CyberneticClient.status
    notified,            \* the values config.onStatusChange was called with
    lastError,           \* CyberneticClient.lastError
    systemSettings,      \* CyberneticClient.systemSettings
    settingsLastChecked, \* CyberneticClient.settingsLastChecked
    documentCount,       \* CyberneticCache.documentCount
    lastSyncAt,          \* CyberneticCache.lastSyncAt
    dbState,             \* CyberneticCache.db / dbPromise: how far initDB has come
    lsDocs,              \* localStorage item 'cybernetic-cache-docs'
    lsMeta,              \* localStorage item 'cybernetic-cache-meta'
    idbDocs,             \* IndexedDB object store 'documents'
    idbMeta,             \* IndexedDB object store 'metadata'
    documents,           \* CyberneticLocalRAG.documents
    indexed,             \* CyberneticLocalRAG.indexed
    now,                 \* Date.now()
    calls,               \* the calls of async methods, by slot
    opsStarted           \* number of calls made so far

clientVars == <<status, notified, lastError, systemSettings, settingsLastChecked>>
cacheVars == <<documentCount, lastSyncAt, dbState, lsDocs, lsMeta, idbDocs, idbMeta>>
ragVars == <<documents, indexed>>
vars == <<config, clientVars, cacheVars, ragVars, now, calls, opsStarted>>

CallIds == 1..MaxCalls

\* the configurations a client is constructed with (ResolvedConfig); a fixed
\* delay differs from a doubling one only from the second retry on
Configs ==
  { cfg \in
    [fallbackEnabled : BOOLEAN,
     onStatusChange : {FALSE},
     cacheOnConnect : {FALSE},
     cacheStorage : {"indexeddb", "localstorage"},
     cacheMaxAge : {DefaultCacheMaxAge},
     maxRetries : 0..MaxRetriesBound,
     initialDelay : {DefaultInitialDelay},
     exponentialBackoff : BOOLEAN] :
    cfg.exponentialBackoff \/ cfg.maxRetries = MaxRetriesBound }

\* the readings of the clock: the start, one settings interval later, and past
\* the default retention; then one more interval per further tick
TimeAt(i) ==
    CASE i = 0 -> 0
      [] i = 1 -> SETTINGS_CHECK_INTERVAL
      [] OTHER -> DefaultRetentionHours * HourMs + (i - 2) * SETTINGS_CHECK_INTERVAL

ClockPoints == {TimeAt(i) : i \in 0..MaxTick}

\* a call slot: the method, its position, its local variables, what it
\* returned, and a record of what it did
IdleCall ==
    [op |-> "idle", pc |-> "idle", outcome |-> "none", answer |-> Null,
     message |-> [type |-> "null", text |-> ""], skipFallback |-> FALSE,
     settings |-> Null, attempt |-> 0, error |-> Null,
     response |-> Null, cacheStatus |-> Null, docs |-> <<>>, result |-> Null,
     statusRequests |-> 0, statusAt |-> Null, statusFailures |-> 0,
     chatRequests |-> 0, streamRequests |-> 0,
     failures |-> 0, last |-> Null, delays |-> <<>>, errorCode |-> Null,
     fallbackRan |-> FALSE, ragAsked |-> 0, ragIndexed |-> 0,
     onError |-> <<>>, onComplete |-> <<>>, onStreamError |-> <<>>]

\* positions at which a call waits on an already settled promise
MicroPcs ==
    {"settings_ready", "api_resolved", "api_rejected", "stream_rejected",
     "fb_retrieved", "fb_indexed", "fb_asked", "sync_stored", "sync_indexed",
     "cc_cleared"}

MicroPending == \E c \in CallIds : calls[c].pc \in MicroPcs

\* a new call takes the first slot that holds no pending call
FreeSlot(c) ==
    /\ calls[c].outcome # "pending"
    /\ \A d \in CallIds : d < c => calls[d].outcome = "pending"

\* a further call can be made
CanStart(c) == FreeSlot(c) /\ opsStarted < MaxOps

\* no call is in flight
Quiet == \A c \in CallIds : calls[c].outcome # "pending"

\* the slots once call `call` has started in slot c: what earlier calls
\* returned has been consumed
Started(c, call) ==
    [d \in CallIds |->
        IF d = c THEN call
        ELSE IF calls[d].outcome = "pending" THEN calls[d] ELSE IdleCall]

\* an IndexedDB read-write transaction is open
TxOpen == \E c \in CallIds : calls[c].pc = "idb_commit"

\* what an earlier session left in the backing store: nothing, one document,
\* or a document followed by a malformed one
PersistedDocs == {Null, Some(SubSeq(DocPool, 1, 1)), Some(<<DocPool[2], DocPool[3]>>)}

\* the client as its constructor leaves it, for one of the configurations
\* cfgs, with the calls the constructor itself has started
ConstructedWith(cfgs, started) ==
    /\ config \in cfgs
    /\ status = "connecting"
    /\ notified = <<>>
    /\ lastError = Null
    /\ systemSettings = Null
    /\ settingsLastChecked = 0
    /\ now = 0
    /\ documents = <<>>
    /\ indexed = FALSE
    /\ calls = started
    /\ opsStarted = 0
    /\ \E persisted \in PersistedDocs :
          LET meta == IF persisted = Null THEN Null
                      ELSE Some([documentCount |-> Len(persisted[1]),
                                 lastSyncAt |-> Some(ToISOString(0))])
          IN IF config.cacheStorage = "localstorage"
             THEN /\ lsDocs = persisted
                  /\ lsMeta = meta
                  /\ idbDocs = <<>>
                  /\ idbMeta = Null
                  /\ dbState = "none"
                  /\ documentCount = (IF meta = Null THEN 0 ELSE meta[1].documentCount)
                  /\ lastSyncAt = (IF meta = Null THEN Null ELSE meta[1].lastSyncAt)
             ELSE /\ lsDocs = Null
                  /\ lsMeta = Null
                  /\ idbDocs = RetrieveLocalStorage(persisted)
                  /\ idbMeta = meta
                  /\ dbState = "opening"
                  /\ documentCount = 0
                  /\ lastSyncAt = Null

\* the client as its constructor leaves it when cacheOnConnect is off: no
\* call has been started
Constructed(cfgs) == ConstructedWith(cfgs, [c \in CallIds |-> IdleCall])

Init == Constructed(Configs)

\* ------------------------------------------------------------ shared steps
\* setStatus calling the observer whether or not the value changes (a mutation)
SetStatusAlways(new) ==
    /\ status' = new
    /\ notified' = IF config.onStatusChange THEN Append(notified, new) ELSE notified

\* CyberneticClient.setStatus; a client configured without onStatusChange
\* calls a no-op
SetStatus(new) ==
    /\ status' = new
    /\ notified' = IF config.onStatusChange /\ status # new
                   THEN Append(notified, new) ELSE notified

\* the connection state is not touched
KeepStatus == UNCHANGED <<status, notified>>

\* handing the Answer to the caller: ask resolves with it, askStream passes
\* it to callbacks.onComplete and resolves
Deliver(call, answer) ==
    IF call.op = "ask"
    THEN [call EXCEPT !.pc = "done", !.outcome = "resolved", !.answer = Some(answer)]
    ELSE [call EXCEPT !.pc = "done", !.outcome = "resolved",
                      !.onComplete = Append(@, answer)]

\* fallbackAsk failing to contain an exception of the local path (a mutation)
FallbackCaughtRethrow(call) ==
    [call EXCEPT !.pc = "done", !.outcome = "rejected"]

\* fallbackAsk: the catch around retrieval, indexing and search
FallbackCaught(call) == Deliver(call, TroubleAnswer)

\* fallbackAsk, from its first line to its first suspension
FallbackEnter(c, call) ==
    LET cacheStatus == CacheGetStatus(documentCount, lastSyncAt, config.cacheMaxAge, now)
        entered == [call EXCEPT !.fallbackRan = TRUE, !.cacheStatus = Some(cacheStatus)]
    IN /\ SetStatus("offline")
       /\ calls' = [calls EXCEPT ![c] =
             IF cacheStatus.documentCount = 0
             THEN Deliver(entered, NoCacheAnswer)
             ELSE IF config.cacheStorage = "localstorage"
             THEN [entered EXCEPT !.pc = "fb_retrieved",
                                  !.docs = RetrieveLocalStorage(lsDocs)]
             ELSE [entered EXCEPT !.pc = "fb_getall"]]

\* CyberneticCache.retrieve on IndexedDB: db.getAll('documents') completes
FallbackGetAll(c) ==
    /\ calls[c].pc = "fb_getall"
    /\ ~MicroPending
    /\ ~TxOpen
    /\ \E ok \in BOOLEAN :
          calls' = [calls EXCEPT ![c] =
             IF ok THEN [@ EXCEPT !.pc = "fb_retrieved", !.docs = idbDocs]
             ELSE FallbackCaught(@)]
    /\ UNCHANGED <<config, clientVars, cacheVars, ragVars, now, opsStarted>>

\* fallbackAsk resumes with the documents: index them unless indexed, then ask
FallbackRetrieved(c) ==
    /\ calls[c].pc = "fb_retrieved"
    /\ IF ~IsIndexed(indexed, documents)
       THEN LET r == RagIndex(calls[c].docs, indexed)
            IN /\ documents' = r.documents
               /\ indexed' = r.indexed
               /\ calls' = [calls EXCEPT ![c] =
                     IF r.threw THEN FallbackCaught([@ EXCEPT !.ragIndexed = @ + 1])
                     ELSE [@ EXCEPT !.pc = "fb_indexed", !.ragIndexed = @ + 1]]
       ELSE /\ UNCHANGED ragVars
            /\ \E sc \in Scorings(documents) :
                  calls' = [calls EXCEPT ![c] =
                     [@ EXCEPT !.pc = "fb_asked", !.ragAsked = @ + 1,
                               !.result = Some(RagAsk(indexed, documents, sc))]]
    /\ UNCHANGED <<config, clientVars, cacheVars, now, opsStarted>>

\* fallbackAsk resumes after index(): ask the engine
FallbackIndexed(c) ==
    /\ calls[c].pc = "fb_indexed"
    /\ \E sc \in Scorings(documents) :
          calls' = [calls EXCEPT ![c] =
             [@ EXCEPT !.pc = "fb_asked", !.ragAsked = @ + 1,
                       !.result = Some(RagAsk(indexed, documents, sc))]]
    /\ UNCHANGED <<config, clientVars, cacheVars, ragVars, now, opsStarted>>

\* fallbackAsk resumes with the engine's result and returns the Answer
FallbackAsked(c) ==
    /\ calls[c].pc = "fb_asked"
    /\ calls' = [calls EXCEPT ![c] =
          Deliver(@, FallbackAnswer(@.result[1], @.cacheStatus[1]))]
    /\ UNCHANGED <<config, clientVars, cacheVars, ragVars, now, opsStarted>>

\* a call returns to its caller
Resolve(call) == [call EXCEPT !.pc = "done", !.outcome = "resolved"]

\* checkSystemStatus, from its first line to its first suspension: reuse the
\* cached settings or send a status request
CheckSystemStatusEnter(call) ==
    IF SettingsFresh(systemSettings, settingsLastChecked, now)
    THEN [call EXCEPT !.pc = "settings_ready", !.settings = systemSettings]
    ELSE [call EXCEPT !.pc = "await_status", !.statusRequests = @ + 1,
                      !.statusAt = Some(now)]

\* checkSystemStatus with a catch that always returns the defaults (a mutation)
StatusFailedDefaults(call, cached) ==
    [call EXCEPT !.pc = "settings_ready", !.statusAt = Null,
                 !.statusFailures = @ + 1,
                 !.settings = Some(SafeDefaults)]

\* checkSystemStatus: the catch returns the cached settings or the defaults
StatusFailed(call, cached) ==
    [call EXCEPT !.pc = "settings_ready", !.statusAt = Null,
                 !.statusFailures = @ + 1,
                 !.settings = IF cached = Null THEN Some(SafeDefaults) ELSE cached]

\* checkSystemStatus remembering a failed refresh as if it were a fresh
\* reading (a mutation)
StatusResponseCachingFailure(c) ==
    /\ calls[c].pc = "await_status"
    /\ ~MicroPending
    /\ \E resp \in StatusOutcomes :
          IF resp.kind = "ok"
          THEN /\ systemSettings' = Some(ExtractSettings(resp))
               /\ settingsLastChecked' = now
               /\ calls' = [calls EXCEPT ![c] =
                     [@ EXCEPT !.pc = "settings_ready", !.statusAt = Null,
                               !.settings = Some(ExtractSettings(resp))]]
          ELSE /\ systemSettings' = StatusFailed(calls[c], systemSettings).settings
               /\ settingsLastChecked' = now
               /\ calls' = [calls EXCEPT ![c] = StatusFailed(@, systemSettings)]
    /\ UNCHANGED <<config, status, notified, lastError, cacheVars, ragVars, now, opsStarted>>

\* ApiClient.getStatus completes inside checkSystemStatus
StatusResponse(c) ==
    /\ calls[c].pc = "await_status"
    /\ ~MicroPending
    /\ \E resp \in StatusOutcomes :
          IF resp.kind = "ok"
          THEN /\ systemSettings' = Some(ExtractSettings(resp))
               /\ settingsLastChecked' = now
               /\ calls' = [calls EXCEPT ![c] =
                     [@ EXCEPT !.pc = "settings_ready", !.statusAt = Null,
                               !.settings = Some(ExtractSettings(resp))]]
          ELSE /\ UNCHANGED <<systemSettings, settingsLastChecked>>
               /\ calls' = [calls EXCEPT ![c] = StatusFailed(@, systemSettings)]
    /\ UNCHANGED <<config, status, notified, lastError, cacheVars, ragVars, now, opsStarted>>

\* checkSystemStatus() is called by the application
CheckSystemStatusStart(c) ==
    /\ CanStart(c)
    /\ opsStarted' = opsStarted + 1
    /\ calls' = Started(c, CheckSystemStatusEnter(
                    [IdleCall EXCEPT !.op = "checkSystemStatus", !.outcome = "pending"]))
    /\ UNCHANGED <<config, clientVars, cacheVars, ragVars, now>>

\* the application resumes with the settings checkSystemStatus returned
CheckSystemStatusReturn(c) ==
    /\ calls[c].pc = "settings_ready"
    /\ calls[c].op = "checkSystemStatus"
    /\ calls' = [calls EXCEPT ![c] = Resolve(@)]
    /\ UNCHANGED <<config, clientVars, cacheVars, ragVars, now, opsStarted>>

\* ------------------------------------------------------------------- ask
\* ask(message, options) is called: reject a bad message at once, otherwise
\* enter checkSystemStatus
AskStart(c) ==
    /\ CanStart(c)
    /\ opsStarted' = opsStarted + 1
    /\ \E m \in MessageInputs, skip \in BOOLEAN :
          LET call == [IdleCall EXCEPT !.op = "ask", !.outcome = "pending",
                                       !.message = m, !.skipFallback = skip]
          IN calls' = Started(c,
                IF IsInvalidMessage(m)
                THEN Deliver(call, CreateErrorResponse(ReplyMessageRequired, "none", Null))
                ELSE CheckSystemStatusEnter(call))
    /\ UNCHANGED <<config, clientVars, cacheVars, ragVars, now>>

\* apiWithRetry with the loop bound taken as exclusive (a mutation)
LoopContinuesStrict(attempt, maxRetries) == attempt < maxRetries

\* apiWithRetry making one attempt more than configured (a mutation)
LoopContinuesOnceMore(attempt, maxRetries) == attempt <= maxRetries + 1

\* apiWithRetry: the loop condition, attempt <= maxRetries
LoopContinues(attempt, maxRetries) == attempt <= maxRetries

\* apiWithRetry waiting after every failed attempt, the last included (a
\* mutation)
ShouldSleepAlways(attempt, maxRetries) == TRUE

\* apiWithRetry: wait before the next attempt, attempt < maxRetries
ShouldSleep(attempt, maxRetries) == attempt < maxRetries

\* apiWithRetry sends a chat request
SendChat(call) ==
    [call EXCEPT !.pc = "await_chat", !.chatRequests = @ + 1]

\* apiWithRetry reporting to the error observer itself before it throws (a
\* mutation)
ThrowLastErrorNotifying(call) ==
    [call EXCEPT !.pc = "api_rejected", !.onError = Append(@, "NETWORK_ERROR")]

\* apiWithRetry after its loop: throw lastError
ThrowLastError(call) == [call EXCEPT !.pc = "api_rejected"]

\* ask resumes with the settings: the maintenance gate, then the live call
AskGate(c) ==
    /\ calls[c].pc = "settings_ready"
    /\ calls[c].op = "ask"
    /\ LET call == calls[c]
           settings == call.settings[1]
       IN IF MaintenanceActive(settings)
          THEN IF ~IsCacheValid(CacheGetStatus(documentCount, lastSyncAt,
                                               config.cacheMaxAge, now),
                                systemSettings, now)
               THEN /\ calls' = [calls EXCEPT ![c] =
                          Deliver(call, MaintenanceAnswer(settings))]
                    /\ KeepStatus
               ELSE FallbackEnter(c, call)
          ELSE /\ calls' = [calls EXCEPT ![c] =
                     IF LoopContinues(0, config.maxRetries)
                     THEN SendChat(call) ELSE ThrowLastError(call)]
               /\ KeepStatus
    /\ UNCHANGED <<config, lastError, systemSettings, settingsLastChecked,
                   cacheVars, ragVars, now, opsStarted>>

\* ApiClient.chat completes inside apiWithRetry: return the response, rethrow
\* an auth or rate-limit failure, or go on to the next attempt
ChatResponse(c) ==
    /\ calls[c].pc = "await_chat"
    /\ ~MicroPending
    /\ \E o \in ChatOutcomes :
          LET call == calls[c]
              resp == ChatResponses[o]
              omegaError == Normalized[Thrown("chat", o)]
              delay == RetryDelay(config.initialDelay, config.exponentialBackoff,
                                  call.attempt)
              failed == [call EXCEPT
                            !.error = Some(Thrown("chat", o)),
                            !.failures = @ + 1,
                            !.last = Some([status |-> resp.status,
                                           class |-> omegaError.code,
                                           reply |-> ""])]
          IN calls' = [calls EXCEPT ![c] =
                IF IsOk(resp)
                THEN [call EXCEPT !.pc = "api_resolved",
                                  !.response = Some([reply |-> resp.reply]),
                                  !.last = Some([status |-> resp.status, class |-> "OK",
                                                 reply |-> resp.reply])]
                ELSE IF NoRetry(omegaError.code)
                THEN [failed EXCEPT !.pc = "api_rejected"]
                ELSE IF ShouldSleep(call.attempt, config.maxRetries)
                THEN [failed EXCEPT !.pc = "sleeping",
                                    !.delays = Append(@, delay)]
                ELSE IF LoopContinues(call.attempt + 1, config.maxRetries)
                THEN SendChat([failed EXCEPT !.attempt = @ + 1])
                ELSE ThrowLastError([failed EXCEPT !.attempt = @ + 1])]
    /\ UNCHANGED <<config, clientVars, cacheVars, ragVars, now, opsStarted>>

\* the retry timer of apiWithRetry fires: the next attempt, if the loop goes
\* on (a retry delay is below the resolution of the clock readings; Tick lets
\* more time pass meanwhile)
SleepDone(c) ==
    /\ calls[c].pc = "sleeping"
    /\ ~MicroPending
    /\ calls' = [calls EXCEPT ![c] =
          IF LoopContinues(@.attempt + 1, config.maxRetries)
          THEN SendChat([@ EXCEPT !.attempt = @ + 1])
          ELSE ThrowLastError([@ EXCEPT !.attempt = @ + 1])]
    /\ UNCHANGED <<config, clientVars, cacheVars, ragVars, now, opsStarted>>

\* ask resumes with the response of apiWithRetry
AskResolved(c) ==
    /\ calls[c].pc = "api_resolved"
    /\ SetStatus("online")
    /\ calls' = [calls EXCEPT ![c] = Deliver(@, LiveAnswer(@.response[1]))]
    /\ UNCHANGED <<config, lastError, systemSettings, settingsLastChecked,
                   cacheVars, ragVars, now, opsStarted>>

\* ask catches the error apiWithRetry threw
AskRejected(c) ==
    /\ calls[c].pc = "api_rejected"
    /\ LET omegaError ==
               IF calls[c].error = Null
               THEN Normalized[Thrown("undefined", "ok1")]
               ELSE Normalized[calls[c].error[1]]
           call == [calls[c] EXCEPT !.errorCode = Some(omegaError.code),
                                    !.onError = Append(@, omegaError.code)]
       IN /\ lastError' = Some(omegaError)
          /\ IF omegaError.code = "RATE_LIMIT"
             THEN /\ calls' = [calls EXCEPT ![c] =
                        Deliver(call, RateLimitAnswer(omegaError))]
                  /\ KeepStatus
             ELSE IF UseFallback(config.fallbackEnabled, call.skipFallback)
             THEN FallbackEnter(c, call)
             ELSE /\ calls' = [calls EXCEPT ![c] =
                        Deliver(call, CreateErrorResponse(ReplyUnableToConnect, "none",
                                                          omegaError.retryAfter))]
                  /\ KeepStatus
    /\ UNCHANGED <<config, systemSettings, settingsLastChecked,
                   cacheVars, ragVars, now, opsStarted>>

\* -------------------------------------------------------------- askStream
\* askStream: the Answer its onComplete wrapper builds from the stream's data
StreamAnswer(data) ==
    Answer(data.fullText, "high", <<>>, FALSE, Null, Null)

\* askStream returning after a failure without a word to its caller (a
\* mutation)
StreamFailSilent(call, code) ==
    [call EXCEPT !.pc = "done", !.outcome = "resolved"]

\* askStream reporting to callbacks.onError and returning
StreamFail(call, code) ==
    [call EXCEPT !.pc = "done", !.outcome = "resolved",
                 !.onStreamError = Append(@, code)]

\* askStream(message, callbacks, options) is called
AskStreamStart(c) ==
    /\ CanStart(c)
    /\ opsStarted' = opsStarted + 1
    /\ \E m \in MessageInputs, skip \in BOOLEAN :
          LET call == [IdleCall EXCEPT !.op = "askStream", !.outcome = "pending",
                                       !.message = m, !.skipFallback = skip]
          IN calls' = Started(c,
                IF IsInvalidMessage(m)
                THEN StreamFail(call, "LOCAL_RAG_ERROR")
                ELSE CheckSystemStatusEnter(call))
    /\ UNCHANGED <<config, clientVars, cacheVars, ragVars, now>>

\* askStream resumes with the settings: the maintenance gate, then the
\* chat-stream request
AskStreamGate(c) ==
    /\ calls[c].pc = "settings_ready"
    /\ calls[c].op = "askStream"
    /\ IF MaintenanceActive(calls[c].settings[1])
       THEN FallbackEnter(c, calls[c])
       ELSE /\ calls' = [calls EXCEPT ![c] =
                  [@ EXCEPT !.pc = "await_stream", !.streamRequests = @ + 1]]
            /\ KeepStatus
    /\ UNCHANGED <<config, lastError, systemSettings, settingsLastChecked,
                   cacheVars, ragVars, now, opsStarted>>

\* ApiClient.chatStream: the response arrives; it throws unless the response
\* is ok and has a body to read
StreamResponse(c) ==
    /\ calls[c].pc = "await_stream"
    /\ ~MicroPending
    /\ \E o \in ChatOutcomes, hasReader \in BOOLEAN :
          LET resp == ChatResponses[o]
              seen == [calls[c] EXCEPT
                          !.last = Some([status |-> resp.status,
                                         class |-> IF IsOk(resp) THEN "OK"
                                                   ELSE Normalized[Thrown("stream", o)].code,
                                         reply |-> resp.reply])]
          IN calls' = [calls EXCEPT ![c] =
                IF ~IsOk(resp)
                THEN [seen EXCEPT !.pc = "stream_rejected",
                                  !.error = Some(Thrown("stream", o))]
                ELSE IF ~hasReader
                THEN [seen EXCEPT !.pc = "stream_rejected",
                                  !.error = Some(Thrown("reader", "ok1"))]
                ELSE [seen EXCEPT !.pc = "stream_reading",
                                  !.response = Some([fullText |-> resp.reply])]]
    /\ UNCHANGED <<config, clientVars, cacheVars, ragVars, now, opsStarted>>

\* ApiClient.chatStream: the read loop ends, with the stream complete or with
\* a read error handed to the onError wrapper of askStream
StreamRead(c) ==
    /\ calls[c].pc = "stream_reading"
    /\ ~MicroPending
    /\ \E complete \in BOOLEAN :
          IF complete
          THEN /\ SetStatus("online")
               /\ calls' = [calls EXCEPT ![c] =
                     [@ EXCEPT !.pc = "done", !.outcome = "resolved",
                               !.onComplete = Append(@, StreamAnswer(calls[c].response[1]))]]
          ELSE LET omegaError == Normalized[Thrown("read", "ok1")]
               IN /\ KeepStatus
                  /\ calls' = [calls EXCEPT ![c] =
                        StreamFail([@ EXCEPT !.errorCode = Some(omegaError.code),
                                             !.onError = Append(@, omegaError.code)],
                                   omegaError.code)]
    /\ UNCHANGED <<config, lastError, systemSettings, settingsLastChecked,
                   cacheVars, ragVars, now, opsStarted>>

\* askStream catches what chatStream threw
StreamRejected(c) ==
    /\ calls[c].pc = "stream_rejected"
    /\ LET omegaError == Normalized[calls[c].error[1]]
           call == [calls[c] EXCEPT !.errorCode = Some(omegaError.code),
                                    !.onError = Append(@, omegaError.code)]
       IN /\ lastError' = Some(omegaError)
          /\ IF UseFallback(config.fallbackEnabled, call.skipFallback)
             THEN FallbackEnter(c, call)
             ELSE /\ calls' = [calls EXCEPT ![c] = StreamFail(call, omegaError.code)]
                  /\ KeepStatus
    /\ UNCHANGED <<config, systemSettings, settingsLastChecked,
                   cacheVars, ragVars, now, opsStarted>>

\* ---------------------------------------------------- CyberneticCache.store
\* cache.store has thrown and the caller, syncCache included, is rejected
\* (a mutation)
StoreThrewRejects(call) ==
    [call EXCEPT !.pc = "done", !.outcome = "rejected",
                 !.error = Some(Thrown("store", "ok1"))]

\* cache.store has thrown: syncCache swallows it in its catch, a direct call
\* of store is rejected
StoreThrew(call) ==
    IF call.op = "syncCache"
    THEN Resolve([call EXCEPT !.error = Some(Thrown("store", "ok1"))])
    ELSE [call EXCEPT !.pc = "done", !.outcome = "rejected",
                      !.error = Some(Thrown("store", "ok1"))]

\* cache.store has returned: syncCache goes on to index, a direct call is over
StoreReturned(call) ==
    IF call.op = "syncCache" THEN [call EXCEPT !.pc = "sync_stored"]
    ELSE Resolve(call)

\* getDB as seen by a caller: still opening (wait on dbPromise), unavailable
\* (dbPromise rejected), or open
AfterGetDB(call) ==
    CASE dbState = "opening" -> [call EXCEPT !.pc = "idb_wait"]
      [] dbState = "failed" -> StoreThrew(call)
      [] OTHER -> [call EXCEPT !.pc = "idb_tx"]

\* CyberneticCache.store(call.docs), from its first line to its first
\* suspension: storeLocalStorage runs to its end, the IndexedDB path waits
\* for the database
CacheStoreEnter(c, call) ==
    IF config.cacheStorage = "localstorage"
    THEN \E quota \in QuotaOutcomes :
            LET r == StoreLocalStorage(call.docs, quota, lsDocs, lsMeta,
                                       documentCount, lastSyncAt, now)
            IN /\ lsDocs' = r.lsDocs
               /\ lsMeta' = r.lsMeta
               /\ documentCount' = r.documentCount
               /\ lastSyncAt' = r.lastSyncAt
               /\ calls' = [calls EXCEPT ![c] =
                     LET seen == [call EXCEPT !.failures =
                                     IF quota = "ok" THEN 0 ELSE 1]
                     IN IF r.threw THEN StoreThrew(seen) ELSE StoreReturned(seen)]
               /\ UNCHANGED <<dbState, idbDocs, idbMeta>>
    ELSE /\ calls' = [calls EXCEPT ![c] = AfterGetDB(call)]
         /\ UNCHANGED cacheVars

\* a call waiting on dbPromise resumes once initDB has returned or failed
DbAwaited(c) ==
    /\ calls[c].pc = "idb_wait"
    /\ dbState \in {"ready", "failed"}
    /\ ~MicroPending
    /\ calls' = [calls EXCEPT ![c] = AfterGetDB(@)]
    /\ UNCHANGED <<config, clientVars, cacheVars, ragVars, now, opsStarted>>

\* store on IndexedDB: the puts and count() complete inside the transaction,
\* documentCount and lastSyncAt are assigned, the metadata puts are issued;
\* or a put is rejected and store throws with the transaction aborted
StoreTx(c) ==
    /\ calls[c].pc = "idb_tx"
    /\ calls[c].op \in {"store", "syncCache"}
    /\ ~MicroPending
    /\ ~TxOpen
    /\ \E ok \in BOOLEAN :
          IF ok
          THEN LET count == Len(PutAll(idbDocs, calls[c].docs))
               IN /\ documentCount' = count
                  /\ lastSyncAt' = Some(ToISOString(now))
                  /\ calls' = [calls EXCEPT ![c] =
                        [@ EXCEPT !.pc = "idb_commit",
                                  !.result = Some([documentCount |-> count,
                                                   lastSyncAt |-> Some(ToISOString(now))])]]
          ELSE /\ calls' = [calls EXCEPT ![c] = StoreThrew(@)]
               /\ UNCHANGED <<documentCount, lastSyncAt>>
    /\ UNCHANGED <<config, clientVars, dbState, lsDocs, lsMeta, idbDocs, idbMeta,
                   ragVars, now, opsStarted>>

\* store on IndexedDB: tx.done settles; the transaction commits, or it aborts
\* (quota) and nothing of it is kept in the database
StoreCommit(c) ==
    /\ calls[c].pc = "idb_commit"
    /\ calls[c].op \in {"store", "syncCache"}
    /\ ~MicroPending
    /\ \E ok \in BOOLEAN :
          IF ok
          THEN /\ idbDocs' = PutAll(idbDocs, calls[c].docs)
               /\ idbMeta' = calls[c].result
               /\ calls' = [calls EXCEPT ![c] = StoreReturned(@)]
          ELSE /\ calls' = [calls EXCEPT ![c] = StoreThrew(@)]
               /\ UNCHANGED <<idbDocs, idbMeta>>
    /\ UNCHANGED <<config, clientVars, documentCount, lastSyncAt, dbState, lsDocs,
                   lsMeta, ragVars, now, opsStarted>>

\* the lists the application hands to store: those a docs request delivers,
\* and one longer than the localStorage limit
BulkDocs ==
    [i \in 1..(LocalStorageLimit + 1) |->
        Doc(ToString(i), "Bulk", Some("Bulk document."))]

StoreInputs == DocLists \cup {BulkDocs}

\* CyberneticCache.retrieve, for a cache whose database (if any) is open
Retrieve ==
    IF config.cacheStorage = "localstorage"
    THEN RetrieveLocalStorage(lsDocs) ELSE idbDocs

\* cache.store(docs) is called
StoreStart(c) ==
    /\ CanStart(c)
    /\ opsStarted' = opsStarted + 1
    /\ \E docs \in StoreInputs :
          CacheStoreEnter(c, [IdleCall EXCEPT !.op = "store", !.outcome = "pending",
                                             !.docs = docs])
    /\ UNCHANGED <<config, clientVars, ragVars, now>>

\* the micro-task positions at which calls wait right now: their
\* continuations are queued ahead of any continuation queued from here on
QueuedAhead ==
    [d \in CallIds |-> IF calls[d].pc \in MicroPcs THEN calls[d].pc ELSE "none"]

\* cache.clear has returned: clearCache goes on to reset the engine, after
\* the continuations queued before its own; a direct call is over
ClearReturned(call) ==
    IF call.op = "clearCache"
    THEN [call EXCEPT !.pc = "cc_cleared", !.last = Some(QueuedAhead)]
    ELSE Resolve(call)

\* CyberneticCache.clear, from its first line to its first suspension:
\* localStorage is cleared at once, the IndexedDB path waits for the database
ClearEnter(c, call) ==
    IF config.cacheStorage = "localstorage"
    THEN /\ lsDocs' = Null
         /\ lsMeta' = Null
         /\ documentCount' = 0
         /\ lastSyncAt' = Null
         /\ calls' = [calls EXCEPT ![c] = ClearReturned(call)]
         /\ UNCHANGED <<dbState, idbDocs, idbMeta>>
    ELSE /\ calls' = [calls EXCEPT ![c] = AfterGetDB(call)]
         /\ UNCHANGED cacheVars

\* cache.clear() is called
ClearStart(c) ==
    /\ CanStart(c)
    /\ opsStarted' = opsStarted + 1
    /\ ClearEnter(c, [IdleCall EXCEPT !.op = "clear", !.outcome = "pending"])
    /\ UNCHANGED <<config, clientVars, ragVars, now>>

\* clearCache() is called: it awaits cache.clear()
ClearCacheStart(c) ==
    /\ CanStart(c)
    /\ opsStarted' = opsStarted + 1
    /\ ClearEnter(c, [IdleCall EXCEPT !.op = "clearCache", !.outcome = "pending"])
    /\ UNCHANGED <<config, clientVars, ragVars, now>>

\* a clearCache that resumes without resetting the engine
ClearCacheClearedKeeping(c) ==
    /\ calls[c].pc = "cc_cleared"
    /\ calls' = [calls EXCEPT ![c] = Resolve(@)]
    /\ UNCHANGED <<config, clientVars, cacheVars, ragVars, now, opsStarted>>

\* clearCache resumes after cache.clear(): localRAG.reset()
ClearCacheCleared(c) ==
    /\ calls[c].pc = "cc_cleared"
    /\ \A d \in CallIds :
          calls[c].last[1][d] = "none" \/ calls[d].pc # calls[c].last[1][d]
    /\ documents' = <<>>
    /\ indexed' = FALSE
    /\ calls' = [calls EXCEPT ![c] = Resolve(@)]
    /\ UNCHANGED <<config, clientVars, cacheVars, now, opsStarted>>

\* clear on IndexedDB: both object stores are cleared and the transaction
\* commits, then documentCount and lastSyncAt are reset; or the transaction
\* fails and clear throws before resetting them
ClearTx(c) ==
    /\ calls[c].pc = "idb_tx"
    /\ calls[c].op \in {"clear", "clearCache"}
    /\ ~MicroPending
    /\ ~TxOpen
    /\ \E ok \in BOOLEAN :
          IF ok
          THEN /\ idbDocs' = <<>>
               /\ idbMeta' = Null
               /\ documentCount' = 0
               /\ lastSyncAt' = Null
               /\ calls' = [calls EXCEPT ![c] = ClearReturned(@)]
          ELSE /\ calls' = [calls EXCEPT ![c] = StoreThrew(@)]
               /\ UNCHANGED <<idbDocs, idbMeta, documentCount, lastSyncAt>>
    /\ UNCHANGED <<config, clientVars, dbState, lsDocs, lsMeta, ragVars, now, opsStarted>>

\* ----------------------------------------------------------------- syncCache
\* what a docs request delivers: a failure, or a list of documents
DocsOutcomes == {Null} \cup {Some(list) : list \in DocLists}

\* syncCache storing whatever the docs request delivered (a mutation)
HasDocsAlways(docs) == TRUE

\* syncCache: docs.length > 0
HasDocs(docs) == Len(docs) > 0

\* syncCache() is called (also by the constructor with cacheOnConnect, and by
\* the window's online event): getLastSync returns and the docs request is sent
SyncStart(c) ==
    /\ CanStart(c)
    /\ opsStarted' = opsStarted + 1
    /\ calls' = Started(c, [IdleCall EXCEPT !.op = "syncCache", !.outcome = "pending",
                                            !.pc = "await_docs"])
    /\ UNCHANGED <<config, clientVars, cacheVars, ragVars, now>>

\* ApiClient.getGeneralDocs completes inside syncCache: a failure is swallowed,
\* an empty list only sets the status, a non-empty list is stored
DocsResponse(c) ==
    /\ calls[c].pc = "await_docs"
    /\ ~MicroPending
    /\ \E r \in DocsOutcomes :
          IF r = Null
          THEN /\ calls' = [calls EXCEPT ![c] =
                     Resolve([@ EXCEPT !.error = Some(Thrown("docs", "net"))])]
               /\ KeepStatus
               /\ UNCHANGED cacheVars
          ELSE IF HasDocs(r[1])
          THEN /\ CacheStoreEnter(c, [calls[c] EXCEPT !.docs = r[1],
                                                      !.response = Some([count |-> Len(r[1])])])
               /\ KeepStatus
          ELSE /\ SetStatus("online")
               /\ calls' = [calls EXCEPT ![c] =
                     Resolve([@ EXCEPT !.response = Some([count |-> 0])])]
               /\ UNCHANGED cacheVars
    /\ UNCHANGED <<config, lastError, systemSettings, settingsLastChecked,
                   ragVars, now, opsStarted>>

\* syncCache resumes after store: index the fetched documents
SyncStored(c) ==
    /\ calls[c].pc = "sync_stored"
    /\ LET r == RagIndex(calls[c].docs, indexed)
       IN /\ documents' = r.documents
          /\ indexed' = r.indexed
          /\ calls' = [calls EXCEPT ![c] =
                IF r.threw
                THEN Resolve([@ EXCEPT !.error = Some(Thrown("index", "ok1")),
                                       !.ragIndexed = @ + 1])
                ELSE [@ EXCEPT !.pc = "sync_indexed", !.ragIndexed = @ + 1]]
    /\ UNCHANGED <<config, clientVars, cacheVars, now, opsStarted>>

\* syncCache resumes after index: the status becomes online
SyncIndexed(c) ==
    /\ calls[c].pc = "sync_indexed"
    /\ SetStatus("online")
    /\ calls' = [calls EXCEPT ![c] = Resolve(@)]
    /\ UNCHANGED <<config, lastError, systemSettings, settingsLastChecked,
                   cacheVars, ragVars, now, opsStarted>>

\* ----------------------------------------------------------- checkConnection
\* checkConnection() is called: a status request is sent
CheckConnectionStart(c) ==
    /\ CanStart(c)
    /\ opsStarted' = opsStarted + 1
    /\ calls' = Started(c, [IdleCall EXCEPT !.op = "checkConnection",
                                            !.outcome = "pending",
                                            !.pc = "await_ping",
                                            !.statusRequests = 1])
    /\ UNCHANGED <<config, clientVars, cacheVars, ragVars, now>>

\* ApiClient.getStatus completes inside checkConnection
PingResponse(c) ==
    /\ calls[c].pc = "await_ping"
    /\ ~MicroPending
    /\ \E ok \in BOOLEAN :
          /\ SetStatus(IF ok THEN "online" ELSE "offline")
          /\ calls' = [calls EXCEPT ![c] =
                Resolve([@ EXCEPT !.response = Some([reachable |-> ok])])]
    /\ UNCHANGED <<config, lastError, systemSettings, settingsLastChecked,
                   cacheVars, ragVars, now, opsStarted>>

\* monitorConnection: the window's offline event
HostOffline ==
    /\ ~MicroPending
    /\ opsStarted < MaxOps
    /\ opsStarted' = opsStarted + 1
    /\ SetStatus("offline")
    /\ UNCHANGED <<config, lastError, systemSettings, settingsLastChecked,
                   cacheVars, ragVars, now, calls>>

\* ------------------------------------------------------------------- clock
\* time passes between two events
Tick ==
    /\ ~MicroPending
    /\ \E t \in ClockPoints : t > now /\ now' = t
    /\ UNCHANGED <<config, clientVars, cacheVars, ragVars, calls, opsStarted>>

\* ----------------------------------------------------- IndexedDB start-up
\* initDB: openDB settles
DbOpened ==
    /\ dbState = "opening"
    /\ ~MicroPending
    /\ \E ok \in BOOLEAN : dbState' = IF ok THEN "loadCount" ELSE "failed"
    /\ UNCHANGED <<config, clientVars, documentCount, lastSyncAt, lsDocs, lsMeta,
                   idbDocs, idbMeta, ragVars, now, calls, opsStarted>>

\* loadMetadata: db.get('metadata', 'documentCount') completes
DbCountLoaded ==
    /\ dbState = "loadCount"
    /\ ~MicroPending
    /\ ~TxOpen
    /\ documentCount' = (IF idbMeta = Null THEN 0 ELSE idbMeta[1].documentCount)
    /\ dbState' = "loadSync"
    /\ UNCHANGED <<config, clientVars, lastSyncAt, lsDocs, lsMeta,
                   idbDocs, idbMeta, ragVars, now, calls, opsStarted>>

\* loadMetadata: db.get('metadata', 'lastSyncAt') completes; initDB returns
DbSyncLoaded ==
    /\ dbState = "loadSync"
    /\ ~MicroPending
    /\ ~TxOpen
    /\ lastSyncAt' = (IF idbMeta = Null THEN Null ELSE idbMeta[1].lastSyncAt)
    /\ dbState' = "ready"
    /\ UNCHANGED <<config, clientVars, documentCount, lsDocs, lsMeta,
                   idbDocs, idbMeta, ragVars, now, calls, opsStarted>>

\* the application calls a method of the client
Calls ==
    \/ \E c \in CallIds : AskStart(c)
    \/ \E c \in CallIds : AskStreamStart(c)

\* a call in flight or the environment takes a step
Steps ==
    \/ \E c \in CallIds : StatusResponse(c)
    \/ \E c \in CallIds : AskGate(c)
    \/ \E c \in CallIds : ChatResponse(c)
    \/ \E c \in CallIds : SleepDone(c)
    \/ \E c \in CallIds : AskResolved(c)
    \/ \E c \in CallIds : AskRejected(c)
    \/ \E c \in CallIds : AskStreamGate(c)
    \/ \E c \in CallIds : StreamResponse(c)
    \/ \E c \in CallIds : StreamRead(c)
    \/ \E c \in CallIds : StreamRejected(c)
    \/ \E c \in CallIds : FallbackRetrieved(c)
    \/ \E c \in CallIds : FallbackIndexed(c)
    \/ \E c \in CallIds : FallbackAsked(c)
    \/ Tick

\* IndexedDB completes a request
DbSteps ==
    \/ \E c \in CallIds : FallbackGetAll(c)
    \/ DbOpened
    \/ DbCountLoaded
    \/ DbSyncLoaded

\* the application awaits each call before it makes the next
Next == (Quiet /\ Calls) \/ Steps \/ DbSteps

Spec == Init /\ [][Next]_vars

\* one call at a time on a client of either storage, every transport call,
\* storage request and timer completing eventually: whatever a pending call
\* or the opening database waits for is delivered
LiveConfigs ==
    [fallbackEnabled : {TRUE},
     onStatusChange : {FALSE},
     cacheOnConnect : {FALSE},
     cacheStorage : {"indexeddb", "localstorage"},
     cacheMaxAge : {DefaultCacheMaxAge},
     maxRetries : {1},
     initialDelay : {DefaultInitialDelay},
     exponentialBackoff : {TRUE}]

InitLive == Constructed(LiveConfigs)

Completions ==
    \/ \E c \in CallIds : StatusResponse(c)
    \/ \E c \in CallIds : AskGate(c)
    \/ \E c \in CallIds : ChatResponse(c)
    \/ \E c \in CallIds : SleepDone(c)
    \/ \E c \in CallIds : AskResolved(c)
    \/ \E c \in CallIds : AskRejected(c)
    \/ \E c \in CallIds : AskStreamGate(c)
    \/ \E c \in CallIds : StreamResponse(c)
    \/ \E c \in CallIds : StreamRead(c)
    \/ \E c \in CallIds : StreamRejected(c)
    \/ \E c \in CallIds : FallbackRetrieved(c)
    \/ \E c \in CallIds : FallbackIndexed(c)
    \/ \E c \in CallIds : FallbackAsked(c)
    \/ DbSteps

SpecLive == InitLive /\ [][Next]_vars /\ WF_vars(Completions)

\* a client on which calls overlap: one configuration, a populated cache kept
\* in localStorage (no IndexedDB is opened)
InitConcurrent ==
    /\ Init
    /\ config.fallbackEnabled
    /\ config.cacheStorage = "localstorage"
    /\ config.maxRetries = 1
    /\ lsDocs # Null /\ Len(lsDocs[1]) = 1

NextConcurrent == Calls \/ Steps

SpecConcurrent == InitConcurrent /\ [][NextConcurrent]_vars

\* the same client on which the application also calls checkSystemStatus
NextSettings ==
    \/ NextConcurrent
    \/ \E c \in CallIds : CheckSystemStatusStart(c)
    \/ \E c \in CallIds : CheckSystemStatusReturn(c)

SpecSettings == InitConcurrent /\ [][NextSettings]_vars

\* the same client and calls, the application awaiting each call before it
\* makes the next
NextSettingsInTurn ==
    \/ Quiet /\ Calls
    \/ Quiet /\ \E c \in CallIds : CheckSystemStatusStart(c)
    \/ \E c \in CallIds : CheckSystemStatusReturn(c)
    \/ Steps

SpecSettingsInTurn == InitConcurrent /\ [][NextSettingsInTurn]_vars

\* the search engine used on its own: a sequence of index and reset calls,
\* each complete before the next (index has no suspension point); call k is
\* recorded in slot k
EngineInputs == UNION {[1..n -> {DocPool[i] : i \in 1..Len(DocPool)}] : n \in 0..MaxDocs}

EngineCanStart(c) == c = opsStarted + 1 /\ opsStarted < MaxOps

\* CyberneticLocalRAG.index(docs) is called and returns or throws
EngineIndex(c) ==
    /\ EngineCanStart(c)
    /\ opsStarted' = opsStarted + 1
    /\ \E docs \in EngineInputs :
          LET r == RagIndex(docs, indexed)
          IN /\ documents' = r.documents
             /\ indexed' = r.indexed
             /\ calls' = [calls EXCEPT ![c] =
                   [IdleCall EXCEPT !.op = "index", !.pc = "done", !.docs = docs,
                                    !.outcome = IF r.threw THEN "rejected"
                                                ELSE "resolved"]]
    /\ UNCHANGED <<config, clientVars, cacheVars, now>>

\* CyberneticLocalRAG.reset() is called
EngineReset(c) ==
    /\ EngineCanStart(c)
    /\ opsStarted' = opsStarted + 1
    /\ documents' = <<>>
    /\ indexed' = FALSE
    /\ calls' = [calls EXCEPT ![c] =
          [IdleCall EXCEPT !.op = "reset", !.pc = "done", !.outcome = "resolved"]]
    /\ UNCHANGED <<config, clientVars, cacheVars, now>>

\* the cache used on its own, on either storage: store and clear calls, which
\* may overlap while IndexedDB requests are outstanding
CacheConfigs ==
    [fallbackEnabled : {TRUE},
     onStatusChange : {FALSE},
     cacheOnConnect : {FALSE},
     cacheStorage : {"indexeddb", "localstorage"},
     cacheMaxAge : {DefaultCacheMaxAge},
     maxRetries : {0},
     initialDelay : {DefaultInitialDelay},
     exponentialBackoff : {TRUE}]

InitCache == Constructed(CacheConfigs)

NextCache ==
    \/ \E c \in CallIds : StoreStart(c)
    \/ \E c \in CallIds : ClearStart(c)
    \/ \E c \in CallIds : DbAwaited(c)
    \/ \E c \in CallIds : StoreTx(c)
    \/ \E c \in CallIds : StoreCommit(c)
    \/ \E c \in CallIds : ClearTx(c)
    \/ DbOpened
    \/ DbCountLoaded
    \/ DbSyncLoaded
    \/ Tick

SpecCache == InitCache /\ [][NextCache]_vars

\* a client with a status observer, its cache in localStorage, on which ask,
\* syncCache and checkConnection overlap and the host may signal offline
SyncConfigs ==
    [fallbackEnabled : {TRUE},
     onStatusChange : {TRUE},
     cacheOnConnect : {FALSE},
     cacheStorage : {"localstorage"},
     cacheMaxAge : {DefaultCacheMaxAge},
     maxRetries : {1},
     initialDelay : {DefaultInitialDelay},
     exponentialBackoff : {TRUE}]

InitSync == Constructed(SyncConfigs)

SyncSteps ==
    \/ \E c \in CallIds : SyncStart(c)
    \/ \E c \in CallIds : DocsResponse(c)
    \/ \E c \in CallIds : SyncStored(c)
    \/ \E c \in CallIds : SyncIndexed(c)
    \/ \E c \in CallIds : CheckConnectionStart(c)
    \/ \E c \in CallIds : PingResponse(c)
    \/ HostOffline

NextSync == Calls \/ Steps \/ SyncSteps

SpecSync == InitSync /\ [][NextSync]_vars

\* a client constructed with cacheOnConnect: the constructor has called
\* syncCache, whose docs request is outstanding; the application then makes
\* its calls of ask, askStream, syncCache and clearCache one after the other
LazyConfigs ==
    [fallbackEnabled : {TRUE},
     onStatusChange : {FALSE},
     cacheOnConnect : {TRUE},
     cacheStorage : {"localstorage"},
     cacheMaxAge : {DefaultCacheMaxAge},
     maxRetries : {1},
     initialDelay : {DefaultInitialDelay},
     exponentialBackoff : {TRUE}]

InitLazy ==
    ConstructedWith(LazyConfigs,
        [c \in CallIds |->
            IF c = 1
            THEN [IdleCall EXCEPT !.op = "syncCache", !.outcome = "pending",
                                  !.pc = "await_docs"]
            ELSE IdleCall])

NextLazy ==
    \/ Quiet /\ Calls
    \/ Quiet /\ \E c \in CallIds : SyncStart(c)
    \/ Quiet /\ \E c \in CallIds : ClearCacheStart(c)
    \/ \E c \in CallIds : DocsResponse(c)
    \/ \E c \in CallIds : SyncStored(c)
    \/ \E c \in CallIds : SyncIndexed(c)
    \/ \E c \in CallIds : ClearCacheCleared(c)
    \/ Steps

SpecLazy == InitLazy /\ [][NextLazy]_vars

\* a client whose localStorage cache holds a document, on which ask,
\* askStream and clearCache overlap
ClearConfigs ==
    [fallbackEnabled : {TRUE},
     onStatusChange : {FALSE},
     cacheOnConnect : {FALSE},
     cacheStorage : {"localstorage"},
     cacheMaxAge : {DefaultCacheMaxAge},
     maxRetries : {1},
     initialDelay : {DefaultInitialDelay},
     exponentialBackoff : {TRUE}]

InitClear ==
    /\ Constructed(ClearConfigs)
    /\ Retrieve = SubSeq(DocPool, 1, 1)

NextClear ==
    \/ Calls
    \/ Steps
    \/ \E c \in CallIds : ClearCacheStart(c)
    \/ \E c \in CallIds : ClearCacheCleared(c)

SpecClear == InitClear /\ [][NextClear]_vars

\* snippet extraction on its own: the top document's content and the query
\* are drawn, one extraction per call, call k recorded in slot k (the content
\* in `docs`, the query in `message`)
SnippetContents ==
    { << <<"apple", "tree">>, <<"pear", "tree">> >>,
      << <<"It", "is", "what", "it", "is">>, <<"pear", "and", "apple">>,
         <<"apple">>, <<"plum">> >> }

SnippetQueries ==
    UNION {[1..n -> {"apple", "pear", "the"}] : n \in 1..3}

SnippetExtract(c) ==
    /\ EngineCanStart(c)
    /\ opsStarted' = opsStarted + 1
    /\ \E content \in SnippetContents, query \in SnippetQueries :
          calls' = [calls EXCEPT ![c] =
             [IdleCall EXCEPT !.op = "snippet", !.pc = "done", !.outcome = "resolved",
                              !.docs = content,
                              !.message = [type |-> "words", text |-> query],
                              !.result = Some(ExtractRelevantSnippet(
                                                 content, Tokenize(query)))]]
    /\ UNCHANGED <<config, clientVars, cacheVars, ragVars, now>>

NextSnippet == \E c \in CallIds : SnippetExtract(c)

SpecSnippet == InitSync /\ [][NextSnippet]_vars

\* ------------------------------------------------------------ construction
\* String.prototype.startsWith
StartsWith(text, prefix) ==
    Len(text) >= Len(prefix) /\ SubSeq(text, 1, Len(prefix)) = prefix

\* the apiUrl and apiKey an application may pass: absent, empty, or a text
ApiUrls == {Null, Some(<<>>), Some(<<"h", "t", "t", "p", "s", ":", "/", "/", "a", "p", "i">>)}
ApiKeys == {Null, Some(<<>>), Some(<<"s", "k", "_", "1">>), Some(<<"a", "m", "_", "1">>)}

\* validateConfig: does it throw on an object with these two fields?
ValidateConfigThrows(apiUrl, apiKey) ==
    \/ apiUrl = Null \/ apiUrl[1] = <<>>
    \/ apiKey = Null \/ apiKey[1] = <<>>
    \/ ~StartsWith(apiKey[1], <<"a", "m", "_">>)

\* new CyberneticClient(config): the only statement that can throw on these
\* fields is baseUrl.replace in the ApiClient constructor, on an absent apiUrl
ConstructorThrows(apiUrl, apiKey) == apiUrl = Null

\* the clients `new CyberneticClient` returns for the configurations an
\* application may pass, used by one caller at a time
ConstructConfigs ==
    { cfg \in
      [fallbackEnabled : {TRUE},
       onStatusChange : {FALSE},
       cacheOnConnect : {FALSE},
       cacheStorage : {"localstorage"},
       cacheMaxAge : {DefaultCacheMaxAge},
       maxRetries : {1},
       initialDelay : {DefaultInitialDelay},
       exponentialBackoff : {TRUE},
       apiUrl : ApiUrls,
       apiKey : ApiKeys] :
      ~ConstructorThrows(cfg.apiUrl, cfg.apiKey) }

InitConstruct == Constructed(ConstructConfigs)

NextConstruct == (Quiet /\ Calls) \/ Steps

SpecConstruct == InitConstruct /\ [][NextConstruct]_vars

\* the engine of such a client, called directly
\* CyberneticLocalRAG.ask(query) is called and returns; what the query
\* matches is the scoring
EngineAsk(c) ==
    /\ EngineCanStart(c)
    /\ opsStarted' = opsStarted + 1
    /\ \E sc \in Scorings(documents) :
          calls' = [calls EXCEPT ![c] =
             [IdleCall EXCEPT !.op = "ragAsk", !.pc = "done", !.outcome = "resolved",
                              !.ragAsked = 1,
                              !.result = Some(RagAsk(indexed, documents, sc))]]
    /\ UNCHANGED <<config, clientVars, cacheVars, ragVars, now>>

NextEngine ==
    \/ \E c \in CallIds : EngineIndex(c)
    \/ \E c \in CallIds : EngineReset(c)

SpecEngine == InitSync /\ [][NextEngine]_vars

\* the corpora handed to index for ranking: lists of distinct pool documents
Corpora ==
    UNION {{c \in [1..n -> {RankPool[i] : i \in 1..Len(RankPool)}] :
              \A i, j \in 1..n : i # j => c[i] # c[j]} : n \in 1..MaxDocs}

\* the queries drawn verbatim from a text: its runs of consecutive words
Verbatim(text) ==
    {SubSeq(text, i, j) : i \in 1..Len(text), j \in 1..Len(text)} \ {<<>>}

\* index(corpus) is called on the engine
RankIndex(c) ==
    /\ EngineCanStart(c)
    /\ opsStarted' = opsStarted + 1
    /\ \E docs \in Corpora :
          LET r == RagIndex(docs, indexed)
          IN /\ documents' = r.documents
             /\ indexed' = r.indexed
             /\ calls' = [calls EXCEPT ![c] =
                   [IdleCall EXCEPT !.op = "index", !.pc = "done", !.docs = docs,
                                    !.outcome = "resolved"]]
    /\ UNCHANGED <<config, clientVars, cacheVars, now>>

\* ask(query) is called on the engine with a query drawn from the content of
\* the k-th indexed document (recorded in `attempt`, the indexed documents in
\* `docs`)
RankAsk(c) ==
    /\ EngineCanStart(c)
    /\ opsStarted' = opsStarted + 1
    /\ \E k \in 1..Len(documents) :
          \E query \in Verbatim(documents[k].content[1]) :
             calls' = [calls EXCEPT ![c] =
                [IdleCall EXCEPT !.op = "ragAsk", !.pc = "done",
                                 !.outcome = "resolved", !.ragAsked = 1,
                                 !.attempt = k, !.docs = documents,
                                 !.message = [type |-> "words", text |-> query],
                                 !.result = Some(RagAsk(indexed, documents,
                                                        RankScores(documents, query)))]]
    /\ UNCHANGED <<config, clientVars, cacheVars, ragVars, now>>

NextRank ==
    \/ \E c \in CallIds : RankIndex(c)
    \/ \E c \in CallIds : RankAsk(c)

SpecRank == InitSync /\ [][NextRank]_vars

\* the engine called directly, queries included
NextEngineAsk ==
    \/ NextEngine
    \/ \E c \in CallIds : EngineAsk(c)

SpecEngineAsk == InitSync /\ [][NextEngineAsk]_vars

\* ------------------------------------------------------------------ claims
\* the Answers a call has handed to its caller: the value ask resolved with,
\* or what askStream passed to callbacks.onComplete
Delivered(call) ==
    IF call.op = "ask"
    THEN (IF call.answer = Null THEN <<>> ELSE <<call.answer[1]>>)
    ELSE call.onComplete

Confidences == {"high", "medium", "low", "none"}

\* C1: ask never throws to its caller: whatever the message, the transport
\* outcomes, the cache and the fallback configuration, a finished ask has
\* resolved with an Answer (reply, confidence, sources, offline), and no ask
\* is ever rejected.
AskNeverRejects ==
    \A c \in CallIds :
        calls[c].op = "ask" =>
            /\ calls[c].outcome # "rejected"
            /\ calls[c].pc = "done" =>
                  /\ calls[c].outcome = "resolved"
                  /\ calls[c].answer # Null
                  /\ calls[c].answer[1].confidence \in Confidences
                  /\ calls[c].answer[1].offline \in BOOLEAN

\* C1, witness: an ask whose live call failed and whose local path threw has
\* resolved with the Answer of the catch.
AskAbsorbedLocalFailure ==
    \E c \in CallIds :
        /\ calls[c].op = "ask"
        /\ calls[c].pc = "done"
        /\ calls[c].errorCode # Null
        /\ calls[c].fallbackRan
        /\ calls[c].answer = Some(TroubleAnswer)

\* C2: whenever the chat transport answers HTTP 429, whatever the body, ask
\* returns an Answer with offline=false, confidence none and a retryAfter
\* hint, and the fallback path is not run (the engine is neither indexed nor
\* queried).
RateLimitNeverFallsBack ==
    \A c \in CallIds :
        ( /\ calls[c].op = "ask"
          /\ calls[c].pc = "done"
          /\ calls[c].last # Null
          /\ calls[c].last[1].status = 429 ) =>
            /\ ~calls[c].answer[1].offline
            /\ calls[c].answer[1].confidence = "none"
            /\ calls[c].answer[1].retryAfter # Null
            /\ ~calls[c].fallbackRan
            /\ calls[c].ragAsked = 0
            /\ calls[c].ragIndexed = 0

\* C3: with maxRetries = M, an ask whose chat attempts failed k <= M times
\* with retried classes and then succeeded has made exactly k+1 chat attempts
\* and returns the last reply with confidence high; an ask all of whose
\* attempts failed with retried classes has made exactly M+1 attempts.
RetryCount ==
    \A c \in CallIds :
        ( /\ calls[c].op = "ask"
          /\ calls[c].pc = "done"
          /\ calls[c].last # Null ) =>
            /\ calls[c].last[1].class = "OK" =>
                  /\ calls[c].failures <= config.maxRetries
                  /\ calls[c].chatRequests = calls[c].failures + 1
                  /\ calls[c].answer =
                        Some(Answer(calls[c].last[1].reply, "high", <<>>, FALSE, Null, Null))
            /\ calls[c].last[1].class \notin {"OK", "AUTH_ERROR", "RATE_LIMIT"} =>
                  /\ calls[c].failures = config.maxRetries + 1
                  /\ calls[c].chatRequests = config.maxRetries + 1

\* C3, witness: maxRetries is 2, two attempts failed and the third succeeded.
TwoFailuresThenSuccess ==
    \E c \in CallIds :
        /\ calls[c].op = "ask"
        /\ calls[c].pc = "done"
        /\ config.maxRetries = 2
        /\ calls[c].failures = 2
        /\ calls[c].chatRequests = 3
        /\ calls[c].last # Null
        /\ calls[c].last[1].class = "OK"

\* C4: when the first chat attempt of an ask is answered with 401 or 429, that
\* attempt stays the only one: no retry delay is taken, no further chat
\* request is sent, and exactly one status check preceded it.
NoRetryOnAuthOrRateLimit ==
    \A c \in CallIds :
        ( /\ calls[c].op = "ask"
          /\ calls[c].failures = 1
          /\ calls[c].last # Null
          /\ calls[c].last[1].status \in {401, 429} ) =>
            /\ calls[c].chatRequests = 1
            /\ calls[c].delays = <<>>
            /\ calls[c].pc \notin {"sleeping", "await_chat"}
            /\ calls[c].statusRequests = 1

\* C5: every Answer with offline=true that ask returns or askStream delivers
\* has confidence medium, low or none; confidence high occurs only on an
\* Answer with offline=false produced by a successful live call.
ConfidenceCeiling ==
    \A c \in CallIds :
        \A i \in 1..Len(Delivered(calls[c])) :
            LET a == Delivered(calls[c])[i]
            IN /\ a.offline => a.confidence \in {"medium", "low", "none"}
               /\ a.confidence = "high" =>
                     /\ ~a.offline
                     /\ ~calls[c].fallbackRan
                     /\ calls[c].last # Null
                     /\ calls[c].last[1].class = "OK"

\* C5, witness: askStream has delivered an offline Answer for a match scored
\* above 0.7, with confidence medium.
StrongOfflineMatchIsMedium ==
    \E c \in CallIds :
        /\ calls[c].op = "askStream"
        /\ calls[c].result # Null
        /\ calls[c].result[1].topScore > 700
        /\ Len(calls[c].onComplete) = 1
        /\ calls[c].onComplete[1].offline
        /\ calls[c].onComplete[1].confidence = "medium"

\* C6: an ask or askStream call whose own settings check returned
\* maintenanceMode or forceOfflineClients sends no chat and no chat-stream
\* request, whatever the cache state.
MaintenanceSkipsLiveCall ==
    \A c \in CallIds :
        ( /\ calls[c].op \in {"ask", "askStream"}
          /\ calls[c].settings # Null
          /\ \/ calls[c].settings[1].maintenanceMode
             \/ calls[c].settings[1].forceOfflineClients ) =>
            /\ calls[c].chatRequests = 0
            /\ calls[c].streamRequests = 0

\* C6, witness: a call that was told forceOfflineClients has delivered its
\* Answer without a request to the chat endpoints.
ForcedOfflineCallAnswered ==
    \E c \in CallIds :
        /\ calls[c].op \in {"ask", "askStream"}
        /\ calls[c].pc = "done"
        /\ calls[c].settings # Null
        /\ calls[c].settings[1].forceOfflineClients
        /\ Len(Delivered(calls[c])) = 1
        /\ calls[c].chatRequests = 0
        /\ calls[c].streamRequests = 0

\* C6 as stated: while the current system settings of the client have
\* maintenanceMode or forceOfflineClients set, no chat or chat-stream request
\* is sent during any ask or askStream call.
NoLiveCallWhileMaintenance ==
    [][ \A c \in CallIds :
          ( \/ calls'[c].chatRequests > calls[c].chatRequests
            \/ calls'[c].streamRequests > calls[c].streamRequests ) =>
              ~( /\ systemSettings # Null
                 /\ \/ systemSettings[1].maintenanceMode
                    \/ systemSettings[1].forceOfflineClients ) ]_vars

\* the cache holds no document, was never synced, or was last synced at least
\* the retention time ago (server-configured hours, 168 when absent or 0)
CacheEmptyOrNotValid ==
    \/ documentCount = 0
    \/ lastSyncAt = Null
    \/ now - lastSyncAt[1].iso >=
          (IF systemSettings = Null \/ systemSettings[1].cacheRetentionHours = 0
           THEN 168 ELSE systemSettings[1].cacheRetentionHours) * 3600000

FallbackIffEnabledAndNotSkipped ==
    /\ [](\A c \in CallIds :
            (calls[c].op = "ask" /\ calls[c].pc = "done" /\ calls[c].fallbackRan) =>
                calls[c].answer[1].offline)
    /\ [][ \A c \in CallIds :
             ( /\ calls[c].op = "ask"
               /\ calls[c].pc = "api_rejected"
               /\ calls'[c].pc # "api_rejected"
               /\ calls'[c].errorCode # Some("RATE_LIMIT") ) =>
                 IF config.fallbackEnabled /\ ~calls[c].skipFallback
                 THEN /\ calls'[c].fallbackRan
                      /\ status' = "offline"
                 ELSE /\ ~calls'[c].fallbackRan
                      /\ status' = status
                      /\ calls'[c].pc = "done"
                      /\ calls'[c].answer # Null
                      /\ calls'[c].answer[1].reply = ReplyUnableToConnect
                      /\ ~calls'[c].answer[1].offline
                      /\ calls'[c].answer[1].confidence = "none" ]_vars

\* C8, witness: a server error with fallback enabled and not skipped has ended
\* in an offline Answer with the connection state offline.
ServerErrorFellBack ==
    \E c \in CallIds :
        /\ calls[c].op = "ask"
        /\ calls[c].pc = "done"
        /\ calls[c].errorCode = Some("SERVER_ERROR")
        /\ config.fallbackEnabled
        /\ ~calls[c].skipFallback
        /\ calls[c].fallbackRan
        /\ status = "offline"
        /\ calls[c].answer[1].offline

\* C9: when the live call of ask fails with an auth error, ask does not enter
\* the fallback path (no delegation to the local engine, connection state not
\* set offline) and does not return an offline Answer, even with fallback
\* enabled.
AuthNeverFallsBack ==
    \A c \in CallIds :
        (calls[c].op = "ask" /\ calls[c].errorCode = Some("AUTH_ERROR")) =>
            /\ ~calls[c].fallbackRan
            /\ calls[c].ragAsked = 0
            /\ calls[c].answer # Null => ~calls[c].answer[1].offline

\* C10: ask with an empty or non-string message returns at once the Answer
\* 'Message is required' with confidence none and offline=false, sends no
\* status or chat request, and leaves connection state, lastError, cached
\* settings, the document store and the search index unchanged.
InvalidMessageHasNoEffect ==
    [][ \A c \in CallIds :
          ( /\ calls[c].outcome # "pending"
            /\ opsStarted' = opsStarted + 1
            /\ calls'[c].op = "ask"
            /\ \/ calls'[c].message.type # "string"
               \/ calls'[c].message.text = "" ) =>
              /\ calls'[c].pc = "done"
              /\ calls'[c].outcome = "resolved"
              /\ calls'[c].answer =
                    Some(Answer("Message is required", "none", <<>>, FALSE, Null, Null))
              /\ calls'[c].statusRequests = 0
              /\ calls'[c].chatRequests = 0
              /\ ~calls'[c].fallbackRan
              /\ UNCHANGED <<clientVars, cacheVars, ragVars>> ]_vars

\* C10, witness: ask was called with a number and has returned the Answer
\* 'Message is required' without a request.
NumberMessageRefused ==
    \E c \in CallIds :
        /\ calls[c].op = "ask"
        /\ calls[c].message.type = "number"
        /\ calls[c].pc = "done"
        /\ calls[c].answer # Null
        /\ calls[c].answer[1].reply = "Message is required"
        /\ calls[c].statusRequests = 0
        /\ calls[c].chatRequests = 0

\* the observer's record agrees with the connection state: nothing notified
\* while the state is still the initial one, otherwise the last notified value
\* is the state, and no value is notified twice in a row
NotifiedConsistent ==
    /\ IF notified = <<>> THEN status = "connecting"
       ELSE notified[Len(notified)] = status
    /\ notified # <<>> => notified[1] # "connecting"
    /\ \A i \in 1..(Len(notified) - 1) : notified[i] # notified[i + 1]

\* C11: over any interleaving of ask, askStream, syncCache, checkConnection
\* and host offline signals, the status observer is called exactly once each
\* time the connection state changes, with the new value, and never when the
\* state is set to the value it already has; so no two consecutive
\* notifications carry the same value and the last one is the current state
ObserverCalledOncePerChange ==
    /\ []NotifiedConsistent
    /\ [][IF status' # status THEN notified' = Append(notified, status')
                               ELSE notified' = notified]_vars

\* two connection checks both found the server reachable; the observer heard
\* "online" once
SecondOnlineNotAnnounced ==
    /\ \A c \in CallIds :
          /\ calls[c].op = "checkConnection"
          /\ calls[c].pc = "done"
          /\ calls[c].response = Some([reachable |-> TRUE])
    /\ notified = <<"online">>

\* the step in which call c has finished handling a successful transport call:
\* checkSystemStatus stored the settings a status request delivered,
\* checkConnection found the server reachable, ask or askStream resumed with
\* the chat response, or syncCache returned after its docs request succeeded
TransportSucceeded(c) ==
    \/ /\ calls[c].pc = "await_status"
       /\ <<systemSettings, settingsLastChecked>>' # <<systemSettings, settingsLastChecked>>
    \/ /\ calls[c].pc = "await_ping"
       /\ calls'[c].response = Some([reachable |-> TRUE])
    \/ /\ calls[c].pc = "api_resolved"
       /\ calls'[c].pc = "done"
    \/ /\ calls[c].pc = "stream_reading"
       /\ calls'[c].outcome = "resolved"
    \/ /\ calls[c].op = "syncCache"
       /\ calls[c].pc # "done"
       /\ calls'[c].pc = "done"
       /\ calls'[c].response # Null

\* C12: after any transport call completes successfully (a status check made
\* by checkSystemStatus or checkConnection, a chat call, or a cache-sync
\* fetch) the connection state is online
OnlineAfterTransportSuccess ==
    [][\A c \in CallIds : TransportSucceeded(c) => status' = "online"]_vars

\* C13: system settings are refreshed at most once per 5-minute interval:
\* across any interleaving of ask, askStream and checkSystemStatus calls,
\* calls in flight at the same time included, no two status requests for
\* settings issued less than one interval apart are outstanding together, and
\* once a fetch has succeeded none is issued until the interval has elapsed
SettingsRefreshedOncePerInterval ==
    /\ [](\A c, d \in CallIds :
            (c # d /\ calls[c].statusAt # Null /\ calls[d].statusAt # Null)
            => \/ calls[c].statusAt[1] - calls[d].statusAt[1] >= SETTINGS_CHECK_INTERVAL
               \/ calls[d].statusAt[1] - calls[c].statusAt[1] >= SETTINGS_CHECK_INTERVAL)
    /\ [][\A c \in CallIds :
            calls'[c].statusRequests = calls[c].statusRequests + 1
            => \/ systemSettings = Null
               \/ now - settingsLastChecked >= SETTINGS_CHECK_INTERVAL]_vars

\* C14: settings are never cleared once obtained: a step never turns cached
\* settings into null and a successful status fetch leaves them non-null; a
\* refresh that fails leaves the cache as it was and returns the previously
\* cached settings, or the safe defaults (cacheRetentionHours 168,
\* maintenanceMode false, forceOfflineClients false) if none was ever fetched
SettingsNeverCleared ==
    [][/\ systemSettings # Null => systemSettings' # Null
       /\ \A c \in CallIds :
            (calls[c].pc = "await_status" /\ calls'[c].pc = "settings_ready")
            => IF <<systemSettings, settingsLastChecked>>' =
                  <<systemSettings, settingsLastChecked>>
               THEN calls'[c].settings =
                      IF systemSettings = Null
                      THEN Some([cacheRetentionHours |-> 168,
                                 maintenanceMode |-> FALSE,
                                 maintenanceMessage |-> Null,
                                 forceOfflineClients |-> FALSE])
                      ELSE systemSettings
               ELSE /\ systemSettings' # Null
                    /\ calls'[c].settings = systemSettings']_vars

\* a refresh made after the interval had elapsed failed, and the call got the
\* maintenance settings fetched earlier
FailedRefreshKeptMaintenance ==
    \E c \in CallIds :
        /\ calls[c].pc = "settings_ready"
        /\ calls[c].statusRequests = 1
        /\ now - settingsLastChecked >= SETTINGS_CHECK_INTERVAL
        /\ systemSettings # Null
        /\ systemSettings[1].maintenanceMode
        /\ calls[c].settings = systemSettings

\* C15: a syncCache whose docs request delivers an empty set clears nothing:
\* the stored documents, documentCount, lastSyncAt and the engine's index are
\* unchanged by it, and the connection state becomes online
EmptySyncKeepsCache ==
    [][\A c \in CallIds :
          (/\ calls[c].pc = "await_docs"
           /\ calls'[c].response = Some([count |-> 0]))
          => /\ UNCHANGED <<cacheVars, ragVars>>
             /\ status' = "online"
             /\ calls'[c].pc = "done"]_vars

\* an empty sync has completed on a client whose cache and index hold
\* documents, after the state had been offline
EmptySyncOverPopulatedCache ==
    \E c \in CallIds :
        /\ calls[c].op = "syncCache"
        /\ calls[c].pc = "done"
        /\ calls[c].response = Some([count |-> 0])
        /\ lsDocs # Null /\ Len(lsDocs[1]) > 0
        /\ documentCount > 0
        /\ lastSyncAt # Null
        /\ indexed /\ Len(documents) > 0
        /\ notified = <<"offline", "online">>

\* C16: syncCache never rejects: when fetching, storing or indexing the
\* documents fails, the call still returns, the step in which it fails leaves
\* the connection state (and its observer) alone, and an ask in flight at the
\* same time is not rejected and, once complete, has returned an Answer
SyncCacheNeverRejects ==
    /\ [](\A c \in CallIds :
            /\ calls[c].op = "syncCache" => calls[c].outcome # "rejected"
            /\ calls[c].op = "ask" =>
                  /\ calls[c].outcome # "rejected"
                  /\ calls[c].pc = "done" => calls[c].answer # Null)
    /\ [][\A c \in CallIds :
            (/\ calls[c].op = "syncCache"
             /\ calls[c].pc # "done"
             /\ calls'[c].pc = "done"
             /\ calls'[c].error # Null)
            => UNCHANGED <<status, notified>>]_vars

\* a sync failed while storing and an ask that overlapped it has returned its
\* Answer; the state is what the ask left
AskCompletedDespiteFailedSync ==
    \E c, d \in CallIds :
        /\ calls[c].op = "syncCache"
        /\ calls[c].pc = "done"
        /\ calls[c].error = Some(Thrown("store", "ok1"))
        /\ calls[d].op = "ask"
        /\ calls[d].pc = "done"
        /\ calls[d].answer # Null
        /\ calls[d].fallbackRan
        /\ status = "offline"

\* the documents of a list, as a set
DocSet(list) == {list[i] : i \in 1..Len(list)}

\* C17: store replaces the entire corpus on both storages: when store(D)
\* completes without a quota failure, retrieve() returns exactly the documents
\* of D, and so no document of an earlier store that is absent from D
StoreReplacesCorpus ==
    [][\A c \in CallIds :
          (/\ calls'[c].op = "store"
           /\ calls[c].pc # "done"
           /\ calls'[c].pc = "done"
           /\ calls'[c].outcome = "resolved"
           /\ calls'[c].failures = 0)
          => DocSet(Retrieve') = DocSet(calls'[c].docs)]_vars

\* C18: store never propagates a storage-backend error: no store call is
\* rejected, whether a write hit the quota, the retry with the list cut to
\* 50 documents was rejected too, or the backing store is unavailable; and
\* after a store that hit the quota retrieve() returns at most 50 documents
StoreNeverRaises ==
    /\ [](\A c \in CallIds :
            calls[c].op = "store" => calls[c].outcome # "rejected")
    /\ [][\A c \in CallIds :
            (/\ calls'[c].op = "store"
             /\ calls[c].pc # "done"
             /\ calls'[c].pc = "done"
             /\ calls'[c].failures > 0)
            => Len(Retrieve') <= LocalStorageLimit]_vars

\* the cache is at rest: no call is in flight and initDB is not under way
CacheAtRest ==
    /\ Quiet
    /\ dbState \in {"none", "ready"}

\* C19: documentCount mirrors the live store count: after any sequence of
\* store and clear calls, quota failures included, getStatus().documentCount
\* is the number of documents retrieve() returns and cacheSize is
\* documentCount x 5000
DocumentCountMirrorsStore ==
    CacheAtRest =>
        LET st == CacheGetStatus(documentCount, lastSyncAt, config.cacheMaxAge, now)
        IN /\ st.documentCount = Len(Retrieve)
           /\ st.cacheSize = st.documentCount * 5000

\* the most recent engine call was index(D) with a non-empty D
LastWasIndexOfDocs ==
    /\ opsStarted > 0
    /\ calls[opsStarted].op = "index"
    /\ calls[opsStarted].docs # <<>>

UnindexedAskIsNoInfo ==
    [][\A c \in CallIds :
          (/\ calls[c].op # "ragAsk"
           /\ calls'[c].op = "ragAsk"
           /\ ~(indexed /\ Len(documents) > 0))
          => /\ calls'[c].result =
                  Some([answer |-> "I don't have any information available offline.",
                        sources |-> <<>>, topScore |-> 0])
             /\ UNCHANGED <<documents, indexed>>]_vars

\* the engine was asked after index([]): the flag is set, nothing is held,
\* and a result came back
AskedAfterEmptyIndex ==
    /\ opsStarted = 2
    /\ calls[1].op = "index" /\ calls[1].docs = <<>>
    /\ calls[2].op = "ragAsk" /\ calls[2].result # Null
    /\ indexed

\* the engine has just answered a query drawn from its k-th document
RankAsked(c) ==
    /\ calls[c].op = "ragAsk"
    /\ calls[c].attempt \in 1..Len(calls[c].docs)

\* two texts hold the same terms in the same proportions
SameProportions(text1, text2) ==
    LET c1 == TermCount(Tokenize(text1))
        c2 == TermCount(Tokenize(text2))
    IN /\ DOMAIN c1 = DOMAIN c2
       /\ \A t, u \in DOMAIN c1 : c1[t] * c2[u] = c1[u] * c2[t]

InvalidConfigNeverSends ==
    \A c \in CallIds :
        calls[c].statusRequests + calls[c].chatRequests + calls[c].streamRequests > 0
        => ~ValidateConfigThrows(config.apiUrl, config.apiKey)

\* C24: askStream applies the same maintenance gate as ask: a call that
\* leaves the gate with maintenanceMode or forceOfflineClients set while the
\* cache is not valid delivers the maintenance Answer carrying
\* maintenanceMessage, whether it is an ask or an askStream
MaintenanceGateSameAnswer ==
    [][\A c \in CallIds :
          (/\ calls[c].pc = "settings_ready"
           /\ calls[c].op \in {"ask", "askStream"}
           /\ calls'[c].pc # "settings_ready"
           /\ MaintenanceActive(calls[c].settings[1])
           /\ ~IsCacheValid(CacheGetStatus(documentCount, lastSyncAt,
                                           config.cacheMaxAge, now),
                            systemSettings, now))
          => Delivered(calls'[c]) = <<MaintenanceAnswer(calls[c].settings[1])>>]_vars

\* C25: a rate-limit failure of the streaming request never triggers the
\* fallback in askStream: whatever the fallback configuration, an askStream
\* whose failure was classified RATE_LIMIT has not entered fallbackAsk (which
\* sets the status to offline) and has delivered no offline Answer
StreamRateLimitNeverFallsBack ==
    \A c \in CallIds :
        (calls[c].op = "askStream" /\ calls[c].errorCode = Some("RATE_LIMIT"))
        => /\ ~calls[c].fallbackRan
           /\ \A i \in 1..Len(calls[c].onComplete) : ~calls[c].onComplete[i].offline

\* C26: with fallback enabled and not skipped, every live-path failure of
\* askStream, whether the stream request is rejected up front or the stream
\* fails while being read, ends with one fallback Answer (offline = true)
\* delivered to onComplete and with no call of the caller's onError
StreamFailureAlwaysFallsBack ==
    \A c \in CallIds :
        (/\ calls[c].op = "askStream"
         /\ calls[c].pc = "done"
         /\ calls[c].streamRequests > 0
         /\ calls[c].errorCode # Null
         /\ UseFallback(config.fallbackEnabled, calls[c].skipFallback))
        => /\ calls[c].onStreamError = <<>>
           /\ Len(calls[c].onComplete) = 1
           /\ calls[c].onComplete[1].offline

\* the error ask's catch received from apiWithRetry, classified
CaughtError(call) ==
    Normalized[IF call.error = Null THEN Thrown("undefined", "ok1") ELSE call.error[1]]

\* C27: for an ask whose live call ultimately fails, the error observer is
\* invoked exactly once for that ask, not once per failed attempt, with the
\* classified error (NETWORK_ERROR when fetch itself was rejected), and when
\* the ask has returned getStatus().lastError is that error; before the catch
\* runs the observer has not been invoked for the ask
ErrorObservedOncePerAsk ==
    \A c \in CallIds :
        calls[c].op = "ask" =>
            IF calls[c].errorCode = Null
            THEN calls[c].onError = <<>>
            ELSE /\ calls[c].onError = <<CaughtError(calls[c]).code>>
                 /\ calls[c].error = Some(Thrown("chat", "net"))
                       => calls[c].onError = <<"NETWORK_ERROR">>
                 /\ calls[c].pc = "done" => lastError = Some(CaughtError(calls[c]))

\* an ask has returned after its two attempts both hit a network failure, and
\* the observer has been told once
NetworkFailureObservedOnceAfterRetry ==
    \E c \in CallIds :
        /\ calls[c].op = "ask"
        /\ calls[c].pc = "done"
        /\ calls[c].failures = 2
        /\ calls[c].error = Some(Thrown("chat", "net"))
        /\ calls[c].onError = <<"NETWORK_ERROR">>
        /\ lastError # Null
        /\ lastError[1].code = "NETWORK_ERROR"

\* chat attempts of a call that have been answered
ChatAnswered(call) == call.failures + (IF call.response = Null THEN 0 ELSE 1)

\* C28: within one ask the settings check precedes the first chat attempt,
\* and the attempts are strictly sequential: at most one chat request of the
\* ask is in flight, attempt n+1 is sent only after attempt n failed and the
\* delay initialDelay * 2^n (backoff on) or initialDelay (backoff off) was
\* waited, and no delay follows the final attempt or a failure that is not
\* retried
AttemptsSequentialWithBackoff ==
    \A c \in CallIds :
        LET call == calls[c]
            inFlight == call.chatRequests - ChatAnswered(call)
        IN call.op = "ask" =>
            /\ call.chatRequests > 0 => call.settings # Null
            /\ call.pc \in {"await_status", "settings_ready"} => call.chatRequests = 0
            /\ inFlight = (IF call.pc = "await_chat" THEN 1 ELSE 0)
            /\ call.chatRequests <= config.maxRetries + 1
            /\ Len(call.delays) <= config.maxRetries
            /\ \A i \in 1..Len(call.delays) :
                  call.delays[i] = RetryDelay(config.initialDelay,
                                              config.exponentialBackoff, i - 1)
            /\ IF call.pc = "sleeping"
               THEN /\ Len(call.delays) = call.chatRequests
                    /\ call.failures = call.chatRequests
                    /\ ~NoRetry(call.last[1].class)
               ELSE call.chatRequests > 0 => Len(call.delays) = call.chatRequests - 1
            /\ call.pc = "await_chat" => call.failures = call.chatRequests - 1

\* the third attempt of an ask is in flight after two failures and the delays
\* 1000 and 2000
ThirdAttemptAfterTwoDelays ==
    \E c \in CallIds :
        /\ calls[c].op = "ask"
        /\ calls[c].pc = "await_chat"
        /\ calls[c].chatRequests = 3
        /\ calls[c].failures = 2
        /\ calls[c].delays = <<DefaultInitialDelay, 2 * DefaultInitialDelay>>

FallbackIndexesLazily ==
    [][\A c \in CallIds :
          LET isIndexed == indexed /\ Len(documents) > 0
          IN /\ (calls[c].pc = "fb_retrieved" /\ calls'[c].pc # "fb_retrieved")
                => IF isIndexed
                   THEN /\ calls'[c].ragIndexed = calls[c].ragIndexed
                        /\ documents' = documents
                        /\ indexed' = indexed
                   ELSE /\ calls'[c].ragIndexed = calls[c].ragIndexed + 1
                        /\ documents' = RagIndex(calls[c].docs, indexed).documents
                        /\ calls[c].docs = RetrieveLocalStorage(lsDocs)
             /\ (/\ calls[c].op \in {"ask", "askStream"}
                 /\ calls[c].outcome = "pending" \/ calls'[c].outcome = "pending"
                 /\ <<documents, indexed>>' # <<documents, indexed>>)
                => calls[c].pc = "fb_retrieved" /\ ~isIndexed]_vars

\* an ask or askStream has answered from an engine it did not index although
\* the store held other documents than the engine
AnsweredFromOlderIndex ==
    \E c \in CallIds :
        /\ calls[c].op \in {"ask", "askStream"}
        /\ calls[c].pc = "done"
        /\ calls[c].fallbackRan
        /\ calls[c].ragIndexed = 0
        /\ calls[c].ragAsked = 1
        /\ indexed
        /\ Len(calls[c].docs) # Len(documents)
        /\ calls[c].docs = RetrieveLocalStorage(lsDocs)

\* C31: indexing is all-or-nothing: the engine never reports isIndexed() over
\* a partially built document set; whenever it is indexed, every document it
\* holds has its weights, as after an index call that ran to its end
IndexedMeansCompletelyBuilt ==
    IsIndexed(indexed, documents)
    => \A i \in 1..Len(documents) : documents[i].weighted

\* C32: isCacheValid is true if and only if a last-sync time stamp exists and
\* now - lastSyncTime < retentionHours * 3600000, where retentionHours is the
\* cacheRetentionHours of the cached settings, whatever its value, 0 included,
\* and 168 only when no settings are cached: an ask that leaves the
\* maintenance gate enters fallbackAsk exactly when that holds
CacheValidByReportedRetention ==
    [][\A c \in CallIds :
          (/\ calls[c].pc = "settings_ready"
           /\ calls[c].op = "ask"
           /\ calls'[c].pc # "settings_ready"
           /\ MaintenanceActive(calls[c].settings[1]))
          => LET retentionHours ==
                     IF systemSettings = Null THEN DefaultRetentionHours
                     ELSE systemSettings[1].cacheRetentionHours
                 valid ==
                     /\ lastSyncAt # Null
                     /\ now - DateGetTime(lastSyncAt[1]) < retentionHours * HourMs
             IN calls'[c].fallbackRan <=> valid]_vars

\* C33: every store call that completes without raising updates lastSyncAt:
\* when it returns, getLastSync() is non-null and, with the cache kept in
\* localStorage where store runs in one step, it is the time of that store
\* and getStatus().isStale is false, also for a store that succeeded only
\* after the truncation that follows a quota failure
CompletedStoreUpdatesLastSync ==
    [][\A c \in CallIds :
          (/\ calls[c].op = "store"
           /\ calls[c].outcome # "resolved"
           /\ calls'[c].outcome = "resolved")
          => /\ lastSyncAt' # Null
             /\ config.cacheStorage = "localstorage"
                => /\ lastSyncAt' = Some(ToISOString(now))
                   /\ ~CacheGetStatus(documentCount', lastSyncAt',
                                      config.cacheMaxAge, now).isStale]_vars

\* the set of tokens of a query
TokenSet(query) == {Tokenize(query)[i] : i \in 1..Len(Tokenize(query))}

\* C34: in snippet extraction a sentence's score is the size of the
\* intersection of the query's token set and the sentence's token set, so
\* two queries with the same token set select, from the same content, the
\* same sentences in the same order
SameTokenSetSameSnippet ==
    \A c, d \in CallIds :
        (/\ calls[c].op = "snippet"
         /\ calls[d].op = "snippet"
         /\ calls[c].docs = calls[d].docs
         /\ TokenSet(calls[c].message.text) = TokenSet(calls[d].message.text))
        => calls[c].result = calls[d].result

\* C35: every ask terminates with a bounded number of transport calls: when
\* every transport call and storage operation completes eventually, an ask
\* that is pending eventually returns, and at no time has it sent more than
\* one status request or more than maxRetries + 1 chat requests
AskTerminatesWithinBounds ==
    /\ [](\A c \in CallIds :
             calls[c].op = "ask" =>
                /\ calls[c].statusRequests <= 1
                /\ calls[c].chatRequests <= config.maxRetries + 1)
    /\ \A c \in CallIds :
          (calls[c].op = "ask" /\ calls[c].outcome = "pending")
          ~> (calls[c].op = "ask" /\ calls[c].outcome = "resolved")

\* an ask has returned after its status request, all of its maxRetries + 1
\* chat requests and a fallback answered from IndexedDB
AskReturnedAfterAllAttempts ==
    \E c \in CallIds :
        /\ calls[c].op = "ask"
        /\ calls[c].outcome = "resolved"
        /\ calls[c].statusRequests = 1
        /\ calls[c].chatRequests = config.maxRetries + 1
        /\ calls[c].ragAsked = 1
        /\ config.cacheStorage = "indexeddb"

\* C36: each askStream call invokes exactly one terminal callback, onComplete
\* or onError, and invokes it exactly once: while the call runs neither has
\* been invoked, and when it has returned exactly one of them has been
\* invoked, once, whatever the message, the settings, the transport outcome
\* and the fallback configuration
OneTerminalCallback ==
    \A c \in CallIds :
        calls[c].op = "askStream" =>
            /\ calls[c].outcome \in {"pending", "resolved"}
            /\ Len(calls[c].onComplete) + Len(calls[c].onStreamError) =
                  (IF calls[c].outcome = "resolved" THEN 1 ELSE 0)

\* an askStream has returned after its stream failed while being read: onError
\* was invoked once and onComplete never
ReadFailureReportedOnce ==
    \E c \in CallIds :
        /\ calls[c].op = "askStream"
        /\ calls[c].outcome = "resolved"
        /\ calls[c].response # Null
        /\ Len(calls[c].onStreamError) = 1
        /\ calls[c].onComplete = <<>>

\* C37: the offline flag of an Answer agrees with the connection state: when
\* an ask, with no other operation interleaved, has returned an Answer with
\* offline = true, getStatus().connection is 'offline'
OfflineAnswerMeansOfflineStatus ==
    \A c \in CallIds :
        (/\ calls[c].op = "ask"
         /\ calls[c].outcome = "resolved"
         /\ calls[c].answer # Null
         /\ calls[c].answer[1].offline)
        => status = "offline"

\* C38: the search index never contains documents missing from the
\* DocumentStore: whenever no call of syncCache, clearCache, ask or askStream
\* is in flight and the engine is indexed, the ids of the documents it holds
\* are among the ids of the documents retrieve() returns
IndexWithinStore ==
    (Quiet /\ IsIndexed(indexed, documents)) =>
        {documents[i].id : i \in 1..Len(documents)}
            \subseteq {Retrieve[j].id : j \in 1..Len(Retrieve)}

\* C39: clearCache is effective under interleaving: once clearCache() has
\* completed and every ask and askStream that was in flight has returned, the
\* engine is not indexed and holds no document, also when clearCache ran
\* while a fallback ask was suspended between retrieving the cached documents
\* and indexing them
ClearCacheLeavesEngineEmpty ==
    (/\ Quiet
     /\ \E c \in CallIds : calls[c].op = "clearCache" /\ calls[c].outcome = "resolved")
    => /\ ~IsIndexed(indexed, documents)
       /\ documents = <<>>

\* clearCache has completed although a fallback ask had retrieved the cached
\* document and indexed it after clearCache emptied the cache; the ask has
\* returned too
ClearedAfterInterleavedIndex ==
    \E c, d \in CallIds :
        /\ Quiet
        /\ calls[c].op = "clearCache"
        /\ calls[c].outcome = "resolved"
        /\ calls[c].last[1][d] = "fb_retrieved"
        /\ calls[d].ragIndexed = 1
        /\ calls[d].outcome = "resolved"

\* C40: cached documents are usable from construction on: when the durable
\* store held documents at construction (and its database did not fail to
\* open), no ask returns the 'no cached information' Answer, also when it
\* reaches the fallback path before the asynchronous open and metadata load
\* have finished
CachedDocumentsUsableFromConstruction ==
    (Retrieve # <<>> /\ dbState # "failed")
    => \A c \in CallIds :
          calls[c].op = "ask" => calls[c].answer # Some(NoCacheAnswer)

====
